---- MODULE Spec2Model ----
(***************************************************************************)
(* HydrexFi DEX adapter: the pool registry (HydrexFiFactory), the pool     *)
(* state synchronizer (HydrexFiEventPool) and the quote sampler            *)
(* (HydrexFi.getPricingFromRpc), modelled as state machines.               *)
(*                                                                         *)
(* Seven specifications share the variables: SpecFactory and SpecPaging    *)
(* drive the registry, SpecLookup its pair lookups, SpecPool the           *)
(* synchronizer, SpecQuote the sampler, SpecVolume whole quotes and        *)
(* SpecSnapshot quotes over a registry that changes meanwhile.             *)
(***************************************************************************)
EXTENDS Integers, Sequences, FiniteSets, TLC

VARIABLES
    \* ---- HydrexFiFactory ----
    pools,          \* this.pools: the registry's pool list
    initPc,         \* position of initialize(): "idle" or "waiting" (suspended on a page)
    initAcc,        \* queryAllAvailablePools' local `pools` accumulator
    initSkip,       \* queryAllAvailablePools' local `skip`
    initLatest,     \* latestBlock argument of the page request in flight
    initRetries,    \* nested latest-block retries of the page request in flight
    initRequests,   \* history: the page requests the bulk load has issued
    initFetched,    \* history: the pages the bulk load has received
    lastError,      \* history: the message of the last error the dataset answered
    poolsAtCall,    \* history: this.pools when initialize() was called
    appended,       \* history: pools pushed by events while initialize() is suspended
    factoryThrew,   \* history: the last registry processLog raised
    lastFactoryLog, \* history: the last log delivered to the registry
    poolsBeforeLog, \* history: this.pools before that log
    nFactoryLogs,   \* number of logs delivered to the registry so far (bounded)
    nInits,         \* number of initialize() calls so far (bounded)
    sortEngine,     \* the Array.prototype.sort of the runtime (fixed for a run)
    lkSrc, lkDest,  \* history: the pair of the last lookup
    lkHeight,       \* history: its blockNumber
    lkResult,       \* history: what getAvailablePoolsForPair returned
    lkPrevResult,   \* history: what the lookup before it returned
    lkRepeat,       \* history: the last two operations were lookups of the same pair
    poolsBeforeLookup, \* history: this.pools before the last lookup
    idResult,       \* history: what getPoolIdentifiers returned
    lastOp,         \* history: the operation that acted last
    \* ---- HydrexFiEventPool ----
    state,          \* the subscriber's current PoolState
    prevState,      \* history: the PoolState before the last log / resync
    lastLog,        \* history: the last log handed to processLog
    lastRet,        \* history: what processLog returned for it
    poolThrew,      \* history: the last processLog / generateState raised
    lastRead,       \* history: what the last successful batched read returned
    shadow,         \* history: the PoolState obtained from the well-formed logs only
    sawMalformed,   \* history: a malformed log has been applied
    liquidityBase,  \* history: the liquidity of the summary the logs started from
    addedSum,       \* history: sum of the deltas of the Mint logs applied since
    removedSum,     \* history: sum of the deltas of the Burn logs applied since
    nLogs,          \* number of logs applied so far (bounded)
    \* ---- HydrexFi.getPricingFromRpc ----
    chunksCount,    \* this.config.chunksCount
    qPc,            \* position of the quote: "idle", "waiting" (on tryAggregate), "done"
    qFrom, qTo,     \* arguments from, to: tokens with address and decimals
    qAmounts,       \* argument amounts
    qSide,          \* argument side
    qPools,         \* argument pools
    qFees,          \* argument transferFees
    qChunked,       \* local chunkedAmounts
    qCalldata,      \* local calldata: the calls of the batched request
    qBatches,       \* history: batched requests issued by the quote
    qResults,       \* local results: what tryAggregate returned
    qRates,         \* history: local _rates of every pool
    qResult,        \* the value getPricingFromRpc returned
    \* ---- HydrexFi.getPricesVolume ----
    vPc,            \* position of the quote: "idle", "pricing" (in getPricingFromRpc), "done"
    vSrc, vDest,    \* arguments srcToken, destToken
    vSide,          \* argument side
    vFees,          \* argument transferFees
    vLimit,         \* argument limitPools (a set of identifiers; empty: no limit)
    vResult,        \* the value getPricesVolume returned
    vThrew,         \* history: an error escaped getPricesVolume
    vRaised,        \* history: where the last quote raised ("none" if nowhere)
    vEverRaised,    \* history: an earlier quote raised
    poolsAtQuote,   \* history: this.pools when the last quote was called
    nQuotes         \* number of quotes so far (bounded)

factoryVars == <<pools, initPc, initAcc, initSkip, initLatest, initRetries,
                 initRequests, initFetched, lastError,
                 poolsAtCall, appended, factoryThrew, lastFactoryLog, poolsBeforeLog,
                 nFactoryLogs, nInits>>
lookupVars == <<sortEngine, lkSrc, lkDest, lkHeight, lkResult, lkPrevResult,
                lkRepeat, poolsBeforeLookup, idResult>>
poolVars == <<state, prevState, lastLog, lastRet, poolThrew, lastRead, shadow,
              sawMalformed,
              liquidityBase, addedSum, removedSum, nLogs>>
quoteVars == <<chunksCount, qPc, qFrom, qTo, qAmounts, qSide, qPools, qFees,
               qChunked, qCalldata, qBatches, qResults, qRates, qResult>>
volumeVars == <<vPc, vSrc, vDest, vSide, vFees, vLimit, vResult, vThrew, vRaised,
                vEverRaised, poolsAtQuote, nQuotes>>
vars == <<factoryVars, lookupVars, poolVars, quoteVars, volumeVars, lastOp>>

(***************************************************************************)
(* Addresses.  String.toLowerCase() is modelled on a small alphabet of     *)
(* mixed-case and lower-case hex strings.                                  *)
(***************************************************************************)
undefined == "undefined"

NULL_ADDRESS == "0x0000000000000000000000000000000000000000"

toLowerCase(s) ==
    CASE s = "0xAA" -> "0xaa"
      [] s = "0xBB" -> "0xbb"
      [] s = "0xCC" -> "0xcc"
      [] s = "0xDD" -> "0xdd"
      [] s = "0xP1" -> "0xp1"
      [] s = "0xP2" -> "0xp2"
      [] s = "0xEE" -> "0xee"
      [] OTHER -> s

(***************************************************************************)
(* Bounds of the model.                                                    *)
(***************************************************************************)
MaxPages == 2          \* pages one bulk load may fetch
MaxRetries == 2        \* nested latest-block retries of one page request
MaxFactoryLogs == 2    \* logs delivered to the registry
MaxInits == 2          \* calls of initialize()

(***************************************************************************)
(* HydrexFiFactory: the indexed dataset.                                   *)
(* TVL is kept in thousandths of a dollar (283410.973 is 283410973).       *)
(***************************************************************************)
defaultPerPageLimit == 1000

Num(v) == [num |-> TRUE, v |-> v]
NaN == [num |-> FALSE, v |-> 0]

RawPool(id, dep, tvl, t0, t1) ==
    [id |-> id, deployer |-> dep, totalValueLockedUSD |-> tvl,
     token0 |-> t0, token1 |-> t1]

RawA == RawPool("0xP1", NULL_ADDRESS, Num(5000), "0xAA", "0xbb")
RawB == RawPool("0xp3", "0xDD", NaN, "0xbb", "0xAA")
RawFiller == RawPool("0xff", NULL_ADDRESS, Num(1), "0xcc", "0xee")

\* the page answers of the dataset: empty or short, and a full page
ShortPages == { <<>>, <<RawA>>, <<RawA, RawB>> }
RawPages == ShortPages \cup { [i \in 1..defaultPerPageLimit |-> RawFiller] }

\* parseFloat(s) || 0
parseFloatOr0(raw) == IF raw.num /\ raw.v # 0 THEN raw.v ELSE 0

mapPage(page) ==
    [i \in 1..Len(page) |->
        [poolAddress |-> toLowerCase(page[i].id),
         token0 |-> toLowerCase(page[i].token0),
         token1 |-> toLowerCase(page[i].token1),
         deployer |-> toLowerCase(page[i].deployer),
         tvlUSD |-> parseFloatOr0(page[i].totalValueLockedUSD)]]

getMockPoolsForTesting ==
    << [poolAddress |-> "0x82dbe18346a8656dbb5e76f74bf3ae279cc16b29",
        token0 |-> "0x4200000000000000000000000000000000000006",
        token1 |-> "0x833589fcd6edb6e08f4c7c32d4f71b54bda02913",
        deployer |-> NULL_ADDRESS, tvlUSD |-> 283410973],
       [poolAddress |-> "0x3f9b863ef4b295d6ba370215bcca3785fcc44f44",
        token0 |-> "0x4200000000000000000000000000000000000006",
        token1 |-> "0xcbb7c0000ab88b473b1f5afd9ef808440eed33bf",
        deployer |-> NULL_ADDRESS, tvlUSD |-> 401457372],
       [poolAddress |-> "0xd604cf300a4ae4345426df42ffb296aa35b4bef2",
        token0 |-> "0x50c5725949a6f0c72e6c4a641f24049a917db0cb",
        token1 |-> "0x833589fcd6edb6e08f4c7c32d4f71b54bda02913",
        deployer |-> NULL_ADDRESS, tvlUSD |-> 206389885] >>

(***************************************************************************)
(* HydrexFiFactory.initialize, one step per suspension point.              *)
(***************************************************************************)
\* the variables of the page query: skip, first, and whether the block is pinned
PageRequest(skip, first, latestBlock) ==
    [skip |-> skip, first |-> first, latest |-> latestBlock]

\* variant of hasNextPage that goes on after any non-empty page
hasNextPageWhenNonEmpty(currentPools) == Len(currentPools) > 0

\* while (currentPools.length === defaultPerPageLimit)
hasNextPage(currentPools) == Len(currentPools) = defaultPerPageLimit

\* initialize() is entered and queryAllAvailablePools requests the first page
InitializeCall ==
    /\ initPc = "idle"
    /\ nInits < MaxInits
    /\ nInits' = nInits + 1
    /\ initPc' = "waiting"
    /\ initAcc' = <<>>
    /\ initSkip' = 0
    /\ initLatest' = FALSE
    /\ initRetries' = 0
    /\ initRequests' = <<PageRequest(0, defaultPerPageLimit, FALSE)>>
    /\ initFetched' = <<>>
    /\ poolsAtCall' = pools
    /\ appended' = <<>>
    /\ lastOp' = "initCall"
    /\ UNCHANGED <<pools, lastError, factoryThrew, lastFactoryLog, poolsBeforeLog,
                   nFactoryLogs, lookupVars, poolVars, quoteVars, volumeVars>>

\* the dataset answers the page in flight with `page`
PageReturn(page) ==
    /\ initPc = "waiting"
    /\ hasNextPage(mapPage(page))
          => (initSkip \div defaultPerPageLimit) + 1 < MaxPages
    /\ LET currentPools == mapPage(page)
           acc == initAcc \o currentPools
       IN  /\ initFetched' = Append(initFetched, currentPools)
           /\ IF hasNextPage(currentPools)
              THEN /\ initAcc' = acc
                   /\ initSkip' = initSkip + defaultPerPageLimit
                   /\ initLatest' = FALSE
                   /\ initRetries' = 0
                   /\ initRequests' = Append(initRequests,
                                         PageRequest(initSkip', defaultPerPageLimit, FALSE))
                   /\ lastOp' = "initPage"
                   /\ UNCHANGED <<pools, initPc>>
              ELSE /\ pools' = acc
                   /\ initPc' = "idle"
                   /\ initAcc' = <<>>
                   /\ lastOp' = "initDone"
                   /\ UNCHANGED <<initSkip, initLatest, initRetries, initRequests>>
    /\ UNCHANGED <<lastError, poolsAtCall, appended, factoryThrew, lastFactoryLog,
                   poolsBeforeLog, nFactoryLogs, nInits, lookupVars, poolVars, quoteVars, volumeVars>>

\* the messages of the errors the dataset answers; each stands for the messages
\* that include it
ErrorMessages == {"missing block", "not yet available", "internal error"}

\* variant that recognizes 'missing block' only
isBlockUnavailableMissingOnly(message) == message = "missing block"

\* message.includes('missing block') || message.includes('not yet available')
isBlockUnavailable(message) ==
    message = "missing block" \/ message = "not yet available"

\* the dataset answers 'missing block' / 'not yet available': same page, latest block
PageBlockUnavailable(message) ==
    /\ initPc = "waiting"
    /\ isBlockUnavailable(message)
    /\ lastError' = message
    /\ initRetries < MaxRetries
    /\ initLatest' = TRUE
    /\ initRetries' = initRetries + 1
    /\ initRequests' = Append(initRequests,
                          PageRequest(initSkip, defaultPerPageLimit, TRUE))
    /\ lastOp' = "initRetry"
    /\ UNCHANGED initFetched
    /\ UNCHANGED <<pools, initPc, initAcc, initSkip, poolsAtCall, appended,
                   factoryThrew, lastFactoryLog, poolsBeforeLog, nFactoryLogs,
                   nInits, lookupVars, poolVars, quoteVars, volumeVars>>

\* the dataset answers any other error (or the request itself fails)
PageError(message) ==
    /\ initPc = "waiting"
    /\ ~isBlockUnavailable(message)
    /\ lastError' = message
    /\ pools' = getMockPoolsForTesting
    /\ initPc' = "idle"
    /\ initAcc' = <<>>
    /\ lastOp' = "initAborted"
    /\ UNCHANGED <<initSkip, initLatest, initRetries, initRequests, initFetched,
                   poolsAtCall, appended,
                   factoryThrew, lastFactoryLog, poolsBeforeLog, nFactoryLogs,
                   nInits, lookupVars, poolVars, quoteVars, volumeVars>>

(***************************************************************************)
(* HydrexFiFactory: the event stream.  A log either fails to decode        *)
(* (logDecoder raises) or decodes to an event with a name and arguments,   *)
(* any of which may be missing.                                            *)
(***************************************************************************)
FactoryLog(dec, name, t0, t1, pool, dep) ==
    [decodable |-> dec, name |-> name, token0 |-> t0, token1 |-> t1,
     pool |-> pool, deployer |-> dep]

FactoryLogs ==
    { FactoryLog(FALSE, undefined, undefined, undefined, undefined, undefined),
      FactoryLog(TRUE, "DefaultCommunityFee", undefined, undefined, undefined, undefined),
      FactoryLog(TRUE, "Pool", "0xAA", "0xbb", "0xP1", undefined),
      FactoryLog(TRUE, "Pool", "0xbb", "0xAA", "0xp2", undefined),
      FactoryLog(TRUE, "Pool", "0xAA", "0xbb", undefined, undefined),
      FactoryLog(TRUE, "Pool", undefined, "0xbb", "0xP1", undefined),
      FactoryLog(TRUE, "Pool", "0xAA", undefined, "0xP1", undefined),
      FactoryLog(TRUE, "CustomPool", "0xAA", "0xbb", "0xP1", "0xDD"),
      FactoryLog(TRUE, "CustomPool", "0xAA", "0xbb", "0xp2", "0xDD"),
      FactoryLog(TRUE, "CustomPool", "0xAA", "0xbb", undefined, "0xDD"),
      FactoryLog(TRUE, "CustomPool", undefined, "0xbb", "0xp2", "0xDD"),
      FactoryLog(TRUE, "CustomPool", "0xAA", "0xbb", "0xp2", undefined) }

\* the handlers registered in the constructor
factoryHandlers == {"Pool", "CustomPool"}

\* handleNewPool raises when it dereferences a missing argument
handleNewPoolThrows(event) ==
    event.token0 = undefined \/ event.token1 = undefined

handleNewPool(ps, event) ==
    LET token0 == toLowerCase(event.token0)
        token1 == toLowerCase(event.token1)
        deployer == NULL_ADDRESS
        poolAddress == IF event.pool = undefined THEN "" ELSE toLowerCase(event.pool)
    IN  IF poolAddress # ""
        THEN Append(ps, [poolAddress |-> poolAddress, token0 |-> token0,
                         token1 |-> token1, deployer |-> deployer, tvlUSD |-> 0])
        ELSE ps

handleNewCustomPoolThrows(event) ==
    event.token0 = undefined \/ event.token1 = undefined
        \/ event.deployer = undefined

\* variant of handleNewCustomPool that skips an address the registry already holds
handleNewCustomPoolDedup(ps, event) ==
    LET poolAddress == IF event.pool = undefined THEN "" ELSE toLowerCase(event.pool)
    IN  IF poolAddress = "" \/ \E i \in 1..Len(ps) : ps[i].poolAddress = poolAddress
        THEN ps
        ELSE Append(ps, [poolAddress |-> poolAddress,
                         token0 |-> toLowerCase(event.token0),
                         token1 |-> toLowerCase(event.token1),
                         deployer |-> toLowerCase(event.deployer), tvlUSD |-> 0])

handleNewCustomPool(ps, event) ==
    LET token0 == toLowerCase(event.token0)
        token1 == toLowerCase(event.token1)
        deployer == toLowerCase(event.deployer)
        poolAddress == IF event.pool = undefined THEN "" ELSE toLowerCase(event.pool)
    IN  IF poolAddress # ""
        THEN Append(ps, [poolAddress |-> poolAddress, token0 |-> token0,
                         token1 |-> token1, deployer |-> deployer, tvlUSD |-> 0])
        ELSE ps

\* processLog has no failure boundary: whatever the decoder or a handler raises escapes
factoryProcessLogThrows(log) ==
    \/ ~log.decodable
    \/ log.name = "Pool" /\ handleNewPoolThrows(log)
    \/ log.name = "CustomPool" /\ handleNewCustomPoolThrows(log)

factoryProcessLog(ps, log) ==
    IF factoryProcessLogThrows(log) \/ log.name \notin factoryHandlers THEN ps
    ELSE IF log.name = "Pool" THEN handleNewPool(ps, log)
    ELSE handleNewCustomPool(ps, log)

FactoryProcessLog(log) ==
    /\ nFactoryLogs < MaxFactoryLogs
    /\ nFactoryLogs' = nFactoryLogs + 1
    /\ pools' = factoryProcessLog(pools, log)
    /\ factoryThrew' = factoryProcessLogThrows(log)
    /\ lastFactoryLog' = log
    /\ poolsBeforeLog' = pools
    /\ appended' = IF initPc = "waiting"
                   THEN appended \o SubSeq(pools', Len(pools) + 1, Len(pools'))
                   ELSE appended
    /\ lastOp' = "factoryLog"
    /\ UNCHANGED <<initPc, initAcc, initSkip, initLatest, initRetries,
                   initRequests, initFetched, lastError,
                   poolsAtCall, nInits, lookupVars, poolVars, quoteVars, volumeVars>>

(***************************************************************************)
(* HydrexFiFactory.getAvailablePoolsForPair.                               *)
(***************************************************************************)
MaxRegistry == 2       \* entries of the registry a lookup starts from

\* dexHelper.config.wrapETH: the native asset stands for its wrapped token
ETHER_ADDRESS == "0xEE"
wrappedNativeTokenAddress == "0xAA"
wrapETH(address) ==
    IF toLowerCase(address) = toLowerCase(ETHER_ADDRESS)
    THEN wrappedNativeTokenAddress ELSE address

\* variant of matchesPair that accepts one orientation only
matchesPairOneWay(pool, srcAddress, destAddress) ==
    pool.token0 = srcAddress /\ pool.token1 = destAddress

\* variant of matchesPair that accepts a pool sharing a token with the pair
matchesPairAnyToken(pool, srcAddress, destAddress) ==
    \/ pool.token0 \in {srcAddress, destAddress}
    \/ pool.token1 \in {srcAddress, destAddress}

\* the filter predicate: the pair in either orientation
matchesPair(pool, srcAddress, destAddress) ==
    \/ pool.token0 = srcAddress /\ pool.token1 = destAddress
    \/ pool.token0 = destAddress /\ pool.token1 = srcAddress

\* the sort comparator: by tvl, descending; a tie answers 1, never 0
tvlComparator(a, b) ==
    LET tvlDiff == b.tvlUSD - a.tvlUSD
    IN  IF tvlDiff # 0 THEN tvlDiff ELSE 1

\* Array.prototype.sort.  The comparator is not consistent (it answers 1 for a
\* tie both ways round), so the order of ties is the runtime's: "timsort" asks
\* the comparator (later, earlier) and moves the later element forward when the
\* answer is negative; "insertion" asks (earlier, later) and moves the earlier
\* element back when the answer is positive.
SortEngines == {"timsort", "insertion"}

movesBefore(x, e, engine) ==
    IF engine = "timsort" THEN tvlComparator(x, e) < 0 ELSE tvlComparator(e, x) > 0

RECURSIVE insertSorted(_, _, _)
insertSorted(sorted, x, engine) ==
    IF sorted = <<>> THEN <<x>>
    ELSE LET n == Len(sorted)
         IN  IF movesBefore(x, sorted[n], engine)
             THEN Append(insertSorted(SubSeq(sorted, 1, n - 1), x, engine), sorted[n])
             ELSE Append(sorted, x)

RECURSIVE sortPools(_, _)
sortPools(list, engine) ==
    IF list = <<>> THEN <<>>
    ELSE LET n == Len(list)
         IN  insertSorted(sortPools(SubSeq(list, 1, n - 1), engine), list[n], engine)

getAvailablePoolsForPair(ps, srcToken, destToken, blockNumber, engine) ==
    LET _srcAddress == toLowerCase(wrapETH(srcToken))
        _destAddress == toLowerCase(wrapETH(destToken))
        matches(pool) == matchesPair(pool, _srcAddress, _destAddress)
    IN  sortPools(SelectSeq(ps, matches), engine)

\* variant in which the sort is applied to this.pools itself
registryAfterLookupSortedInPlace(ps, engine) == sortPools(ps, engine)

\* this.pools after a lookup: filter() builds a new array and sort() orders that one
registryAfterLookup(ps, engine) == ps

\* the block heights a lookup is asked for
Heights == {1, 2}

\* the pairs a lookup is asked for
LookupPairs == { <<"0xAA", "0xbb">>, <<"0xbb", "0xEE">>, <<"0xEE", "0xAA">> }

GetAvailablePoolsForPair(srcToken, destToken, blockNumber) ==
    /\ lkSrc' = srcToken
    /\ lkDest' = destToken
    /\ lkHeight' = blockNumber
    /\ lkResult' = getAvailablePoolsForPair(pools, srcToken, destToken, blockNumber,
                                            sortEngine)
    /\ lkPrevResult' = lkResult
    /\ lkRepeat' = (lastOp = "lookup" /\ lkSrc = srcToken /\ lkDest = destToken)
    /\ poolsBeforeLookup' = pools
    /\ pools' = registryAfterLookup(pools, sortEngine)
    /\ lastOp' = "lookup"
    /\ UNCHANGED <<initPc, initAcc, initSkip, initLatest, initRetries,
                   initRequests, initFetched, lastError,
                   poolsAtCall, appended, factoryThrew, lastFactoryLog,
                   poolsBeforeLog, nFactoryLogs, nInits, sortEngine, idResult,
                   poolVars, quoteVars, volumeVars>>

(***************************************************************************)
(* HydrexFiEventPool: the pool state synchronizer.                         *)
(* sqrtPriceX96, liquidity and the fee-growth accumulators are bigint      *)
(* (unbounded, no wrap-around); tick is a JavaScript number.               *)
(***************************************************************************)
MaxLogs == 3           \* logs delivered to the synchronizer

PoolState(p, l, t, f0, f1) ==
    [sqrtPriceX96 |-> p, liquidity |-> l, tick |-> t,
     feeGrowthGlobal0X128 |-> f0, feeGrowthGlobal1X128 |-> f1]

defaultPoolState == PoolState(0, 0, 0, 0, 0)

\* an argument of a decoded event: missing, present but not convertible, or a value
Absent == [k |-> "absent", v |-> 0]
Bad == [k |-> "malformed", v |-> 0]
Val(n) == [k |-> "val", v |-> n]

PoolLog(dec, name, hasArgs, price, tick, liq) ==
    [decodable |-> dec, name |-> name, hasArgs |-> hasArgs,
     sqrtPriceX96 |-> price, tick |-> tick, liquidity |-> liq]

\* tick is an int24, which the decoder yields as a number: missing or a value
PoolLogs ==
    { PoolLog(FALSE, undefined, FALSE, Absent, Absent, Absent),
      PoolLog(TRUE, "Fee", TRUE, Absent, Absent, Absent),
      PoolLog(TRUE, "Collect", TRUE, Absent, Absent, Absent) }
    \cup { PoolLog(TRUE, name, FALSE, Absent, Absent, Absent) :
             name \in {"Swap", "Mint", "Burn"} }
    \cup { PoolLog(TRUE, "Swap", TRUE, p, t, Absent) :
             p \in {Absent, Bad, Val(0), Val(9)},
             t \in {Absent, Val(0), Val(-2), Val(5)} }
    \cup { PoolLog(TRUE, name, TRUE, Absent, Absent, l) :
             name \in {"Mint", "Burn"}, l \in {Absent, Bad, Val(1), Val(3)} }

poolHandlers == {"Swap", "Mint", "Burn", "Collect"}

\* BigInt(x?.toString() || fallback) raises on a value that is no integer literal
bigIntThrows(field) == field.k = "malformed"
bigIntOr(field, fallback) == IF field.k = "val" THEN field.v ELSE fallback

\* Number(x || fallback): a missing x and x = 0 are both falsy
numberOr(field, fallback) ==
    IF field.k = "val" /\ field.v # 0 THEN field.v ELSE fallback

\* variant of handleSwap that writes the tick before the price conversion fails
handleSwapTickBeforeThrow(event, st) ==
    IF ~event.hasArgs THEN st
    ELSE IF bigIntThrows(event.sqrtPriceX96)
         THEN [st EXCEPT !.tick = numberOr(event.tick, st.tick)]
         ELSE [st EXCEPT !.sqrtPriceX96 = bigIntOr(event.sqrtPriceX96, st.sqrtPriceX96),
                         !.tick = numberOr(event.tick, st.tick)]

handleSwap(event, st) ==
    IF ~event.hasArgs \/ bigIntThrows(event.sqrtPriceX96)
    THEN st                                   \* catch (error) { return state; }
    ELSE [st EXCEPT !.sqrtPriceX96 = bigIntOr(event.sqrtPriceX96, st.sqrtPriceX96),
                    !.tick = numberOr(event.tick, st.tick)]

handleMint(event, st) ==
    IF ~event.hasArgs \/ bigIntThrows(event.liquidity)
    THEN st
    ELSE [st EXCEPT !.liquidity = st.liquidity + bigIntOr(event.liquidity, 0)]

\* variant of handleBurn that stops at zero
handleBurnSaturating(event, st) ==
    IF ~event.hasArgs \/ bigIntThrows(event.liquidity)
    THEN st
    ELSE LET left == st.liquidity - bigIntOr(event.liquidity, 0)
         IN  [st EXCEPT !.liquidity = IF left < 0 THEN 0 ELSE left]

handleBurn(event, st) ==
    IF ~event.hasArgs \/ bigIntThrows(event.liquidity)
    THEN st
    ELSE [st EXCEPT !.liquidity = st.liquidity - bigIntOr(event.liquidity, 0)]

\* variant of handleCollect that clears the collected fee growth
handleCollectResetsFees(event, st) ==
    [st EXCEPT !.feeGrowthGlobal0X128 = 0, !.feeGrowthGlobal1X128 = 0]

handleCollect(event, st) == st

Returned(st) == [null |-> FALSE, st |-> st]
ReturnedNull == [null |-> TRUE, st |-> defaultPoolState]

\* variant of processLog that answers a log nothing handles with the default state
poolProcessLogUnhandledAsDefault(st, log) ==
    IF ~log.decodable \/ log.name \notin poolHandlers THEN Returned(defaultPoolState)
    ELSE IF log.name = "Swap" THEN Returned(handleSwap(log, st))
    ELSE IF log.name = "Mint" THEN Returned(handleMint(log, st))
    ELSE IF log.name = "Burn" THEN Returned(handleBurn(log, st))
    ELSE Returned(handleCollect(log, st))

\* processLog: decode and dispatch inside try/catch; null when nothing handled the log
poolProcessLog(st, log) ==
    IF ~log.decodable THEN ReturnedNull       \* catchParseLogError
    ELSE IF log.name \notin poolHandlers THEN ReturnedNull
    ELSE IF log.name = "Swap" THEN Returned(handleSwap(log, st))
    ELSE IF log.name = "Mint" THEN Returned(handleMint(log, st))
    ELSE IF log.name = "Burn" THEN Returned(handleBurn(log, st))
    ELSE Returned(handleCollect(log, st))

\* whether an exception escapes processLog: the try block covers decoder and handlers
poolProcessLogThrows(log) == FALSE

\* the subscriber keeps its state when processLog returns null
nextPoolState(st, ret) == IF ret.null THEN st ELSE ret.st

\* a log of a recognized kind that cannot be decoded, as a whole or in one argument
MalformedPoolLog(log) ==
    \/ ~log.decodable
    \/ /\ log.name \in {"Swap", "Mint", "Burn"}
       /\ \/ ~log.hasArgs
          \/ log.sqrtPriceX96.k = "malformed"
          \/ log.liquidity.k = "malformed"

\* the liquidity delta a decoded event of the given kind carries (0 for others)
liquidityDelta(log, name) ==
    IF log.decodable /\ log.name = name /\ log.hasArgs /\ log.liquidity.k = "val"
    THEN log.liquidity.v ELSE 0

ApplyLog(log) ==
    /\ nLogs < MaxLogs
    /\ nLogs' = nLogs + 1
    /\ lastLog' = log
    /\ prevState' = state
    /\ lastRet' = poolProcessLog(state, log)
    /\ poolThrew' = poolProcessLogThrows(log)
    /\ state' = IF poolThrew' THEN state ELSE nextPoolState(state, lastRet')
    /\ shadow' = IF MalformedPoolLog(log) THEN shadow
                 ELSE nextPoolState(shadow, poolProcessLog(shadow, log))
    /\ sawMalformed' = (sawMalformed \/ MalformedPoolLog(log))
    /\ addedSum' = addedSum + liquidityDelta(log, "Mint")
    /\ removedSum' = removedSum + liquidityDelta(log, "Burn")
    /\ UNCHANGED <<liquidityBase, lastRead>>
    /\ lastOp' = "poolLog"
    /\ UNCHANGED <<factoryVars, lookupVars, quoteVars, volumeVars>>

(***************************************************************************)
(* HydrexFiEventPool.generateState: one batched read of globalState and    *)
(* liquidity; a read is a set of decoded fields, or fails as a whole.      *)
(***************************************************************************)
ChainRead(p, l, t, f0, f1) ==
    [sqrtPriceX96 |-> p, liquidity |-> l, tick |-> t,
     feeGrowthGlobal0X128 |-> f0, feeGrowthGlobal1X128 |-> f1]

ChainReads ==
    { ChainRead(Val(7), Val(4), Val(-3), Val(6), Val(2)),
      ChainRead(Val(9), Val(1), Val(0), Val(1), Absent),
      ChainRead(Absent, Absent, Absent, Absent, Val(3)) }

generateState(read) ==
    PoolState(bigIntOr(read.sqrtPriceX96, 0), bigIntOr(read.liquidity, 0),
              numberOr(read.tick, 0), bigIntOr(read.feeGrowthGlobal0X128, 0),
              bigIntOr(read.feeGrowthGlobal1X128, 0))

\* variant of the catch of generateState that answers the summary it started from
generateStateOnErrorKeepsState(st) == st

\* catch (error) { return { sqrtPriceX96: 0n, liquidity: 0n, tick: 0, ... } }
generateStateOnError(st) == defaultPoolState

\* the read succeeds: the subscriber's state is replaced by the generated one
GenerateStateOk(read) ==
    /\ lastOp # "resync"
    /\ prevState' = state
    /\ state' = generateState(read)
    /\ lastRead' = read
    /\ poolThrew' = FALSE
    /\ shadow' = state'
    /\ liquidityBase' = state'.liquidity /\ addedSum' = 0 /\ removedSum' = 0
    /\ lastOp' = "resync"
    /\ UNCHANGED <<lastLog, lastRet, sawMalformed, nLogs, factoryVars,
                   lookupVars, quoteVars, volumeVars>>

\* the read or its decoding raises: the default state is returned
GenerateStateFail ==
    /\ lastOp # "resyncFailed"
    /\ prevState' = state
    /\ state' = generateStateOnError(state)
    /\ poolThrew' = FALSE
    /\ shadow' = state'
    /\ liquidityBase' = state'.liquidity /\ addedSum' = 0 /\ removedSum' = 0
    /\ lastOp' = "resyncFailed"
    /\ UNCHANGED <<lastLog, lastRet, lastRead, sawMalformed, nLogs, factoryVars,
                   lookupVars, quoteVars, volumeVars>>

(***************************************************************************)
(* HydrexFi.getPricingFromRpc: the quote sampler.                          *)
(* Amounts are bigint; the model keeps them below 2^31.                    *)
(***************************************************************************)
MaxAmounts == 3        \* length of a requested amount vector
MaxChunks == 2         \* config.chunksCount ranges over 1..MaxChunks

dexKey == "HydrexFi"

Token(address, decimals) == [address |-> address, decimals |-> decimals]

TransferFees(srcFee, destFee, srcDexFee, destDexFee) ==
    [srcFee |-> srcFee, destFee |-> destFee,
     srcDexFee |-> srcDexFee, destDexFee |-> destDexFee]

\* fees in basis points
BPS_MAX_VALUE == 10000
SRC_TOKEN_DEX_TRANSFERS == 1
DEST_TOKEN_DEX_TRANSFERS == 1

isSrcTokenTransferFeeToBeExchanged(fees) == fees.srcFee # 0 \/ fees.srcDexFee # 0
isDestTokenTransferFeeToBeExchanged(fees) == fees.destFee # 0 \/ fees.destDexFee # 0

\* amount * (BPS - fee) / BPS, rounded down, computed without leaving 32 bits
shrinkByFee(amount, fee) ==
    (amount \div BPS_MAX_VALUE) * (BPS_MAX_VALUE - fee)
        + ((amount % BPS_MAX_VALUE) * (BPS_MAX_VALUE - fee)) \div BPS_MAX_VALUE

RECURSIVE shrinkTimes(_, _, _)
shrinkTimes(amount, fee, nTransfers) ==
    IF nTransfers = 0 THEN amount
    ELSE shrinkTimes(shrinkByFee(amount, fee), fee, nTransfers - 1)

applyTransferFee(amounts, side, fee, nTransfers) ==
    [i \in 1..Len(amounts) |-> shrinkTimes(amounts[i], fee, nTransfers)]

getBigIntPow(decimals) == 10 ^ decimals

\* Math.floor(chunks / chunksCount) with chunks = amounts.length - 1
chunkWidth(amounts, cc) == (Len(amounts) - 1) \div cc

\* variant of chunkedAmounts that samples every requested amount
chunkedAmountsPerAmount(amounts, unitVolume, cc) == <<unitVolume>> \o amounts

\* variant of chunkedAmounts that samples amounts[i * _width]
chunkedAmountsFromFirst(amounts, unitVolume, cc) ==
    <<unitVolume>> \o [i \in 1..cc |-> amounts[(i - 1) * chunkWidth(amounts, cc) + 1]]

\* [unitVolume].concat(amounts[(i + 1) * _width] for i = 0 .. chunksCount - 1)
chunkedAmounts(amounts, unitVolume, cc) ==
    <<unitVolume>> \o [i \in 1..cc |-> amounts[i * chunkWidth(amounts, cc) + 1]]

amountsForQuote(chunked, side, fees) ==
    IF isSrcTokenTransferFeeToBeExchanged(fees)
    THEN applyTransferFee(chunked, side, fees.srcDexFee, SRC_TOKEN_DEX_TRANSFERS)
    ELSE chunked

getMultiCallData(from, to, deployer, amount, isSELL) ==
    [target |-> "quoter",
     fn |-> IF isSELL THEN "quoteExactInputSingle" ELSE "quoteExactOutputSingle",
     from |-> from, to |-> to, deployer |-> deployer, amount |-> amount]

\* pools.flatMap(pool => amountsForQuote.map(amount => getMultiCallData(...)))
buildCalldata(from, to, ps, forQuote, isSELL) ==
    [k \in 1..(Len(ps) * Len(forQuote)) |->
        getMultiCallData(from.address, to.address,
                         ps[((k - 1) \div Len(forQuote)) + 1].deployer,
                         forQuote[((k - 1) % Len(forQuote)) + 1], isSELL)]

\* 10^12 / 2500: (amount * 2500) / 10^12 = amount / mockDivisor and
\* (amount * 10^12) / 2500 = amount * mockDivisor for every amount >= 0
mockDivisor == 400000000

getMockPriceForTesting(amount, isSELL) ==
    IF amount = 0 THEN 0
    ELSE IF isSELL THEN amount \div mockDivisor
    ELSE amount * mockDivisor

allFailed(results) == \A k \in 1..Len(results) : ~results[k].success

\* variant of poolRates without the all-failed fallback
poolRatesNoFallback(results, chunked, poolIndex, nForQuote, isSELL) ==
    [i \in 1..Len(chunked) |->
        LET res == results[poolIndex * nForQuote + i]
        IN  IF res.success THEN res.returnData ELSE 0]

\* variant of poolRates that uses the fallback for any failed call
poolRatesFallbackOnAnyFailure(results, chunked, poolIndex, nForQuote, isSELL) ==
    [i \in 1..Len(chunked) |->
        LET res == results[poolIndex * nForQuote + i]
        IN  IF res.success THEN res.returnData
            ELSE getMockPriceForTesting(chunked[i], isSELL)]

\* variant of poolRates whose offset is poolIndex * chunksCount
poolRatesOverlapping(results, chunked, poolIndex, nForQuote, isSELL) ==
    [i \in 1..Len(chunked) |->
        LET res == results[poolIndex * (nForQuote - 1) + i]
        IN  IF res.success THEN res.returnData
            ELSE IF allFailed(results)
                 THEN getMockPriceForTesting(chunked[i], isSELL)
                 ELSE 0]

\* _rates of the pool at (0-based) poolIndex
poolRates(results, chunked, poolIndex, nForQuote, isSELL) ==
    [i \in 1..Len(chunked) |->
        LET res == results[poolIndex * nForQuote + i]
        IN  IF res.success THEN res.returnData
            ELSE IF allFailed(results)
                 THEN getMockPriceForTesting(chunked[i], isSELL)
                 ELSE 0]

ratesWithFee(rates, side, fees) ==
    IF isDestTokenTransferFeeToBeExchanged(fees)
    THEN applyTransferFee(rates, side, fees.destDexFee, DEST_TOKEN_DEX_TRANSFERS)
    ELSE rates

\* bigint division truncates toward zero
truncDiv(a, b) == IF a >= 0 THEN a \div b ELSE -((-a) \div b)

\* the point of the sampled curve (with the origin before it) at index i
curveX(xs, i) == IF i = 0 THEN 0 ELSE xs[i]
curveY(ys, i) == IF i = 0 THEN 0 ELSE ys[i]

\* the output for one requested amount: 0 for 0, the sample itself when nx is
\* sampled, else linear between (or beyond) the neighbouring samples
interpolateOne(xs, ys, nx) ==
    LET n == Len(xs)
        hits == {i \in 1..n : xs[i] >= nx}
        idx == IF hits = {} THEN n
               ELSE CHOOSE i \in hits : \A j \in hits : i <= j
        x0 == curveX(xs, idx - 1)
        y0 == curveY(ys, idx - 1)
    IN  IF nx = 0 THEN 0
        ELSE IF xs[idx] = nx THEN ys[idx]
        ELSE IF xs[idx] = x0 THEN ys[idx]
        ELSE y0 + truncDiv((ys[idx] - y0) * (nx - x0), xs[idx] - x0)

interpolate(xs, ys, nxs, side) ==
    [j \in 1..Len(nxs) |-> interpolateOne(xs, ys, nxs[j])]

\* _sortTokens: ascending by string comparison
addrRank(a) ==
    CASE a = "0xaa" -> 1 [] a = "0xbb" -> 2 [] a = "0xcc" -> 3 [] a = "0xdd" -> 4
      [] a = "0xee" -> 5 [] OTHER -> 6

\* variant of _sortTokens that keeps the order given
sortTokensAsGiven(srcAddress, destAddress) == <<srcAddress, destAddress>>

sortTokens(srcAddress, destAddress) ==
    IF addrRank(srcAddress) < addrRank(destAddress)
    THEN <<srcAddress, destAddress>> ELSE <<destAddress, srcAddress>>

\* `${dexKey}_${token}_${token}_${deployer}`
getPoolIdentifier(srcAddress, destAddress, deployerAddress) ==
    <<dexKey>> \o sortTokens(srcAddress, destAddress) \o <<deployerAddress>>

\* a variant that interpolates over the amounts sent in the calls
interpolationAmountsSent(chunked, forQuote) == Tail(forQuote)

\* the sample amounts handed to interpolate: chunkedAmounts.slice(1), whatever
\* amountsForQuote is
interpolationAmounts(chunked, forQuote) == Tail(chunked)

\* the entry of the result for the pool at (0-based) poolIndex
poolPrices(from, to, amounts, side, ps, fees, chunked, results, poolIndex) ==
    LET pool == ps[poolIndex + 1]
        rates == poolRates(results, chunked, poolIndex,
                           Len(amountsForQuote(chunked, side, fees)), side = "SELL")
        withFee == ratesWithFee(rates, side, fees)
        xs == interpolationAmounts(chunked, amountsForQuote(chunked, side, fees))
    IN  [prices |-> interpolate(xs, Tail(withFee), amounts, side),
         unit |-> withFee[1],
         data |-> [feeOnTransfer |-> isSrcTokenTransferFeeToBeExchanged(fees),
                   path |-> << [tokenIn |-> from.address, tokenOut |-> to.address,
                                deployer |-> pool.deployer] >>],
         poolIdentifiers |-> << getPoolIdentifier(pool.token0, pool.token1,
                                                  pool.deployer) >>,
         exchange |-> dexKey,
         poolAddresses |-> << pool.poolAddress >>]

NullResult == [null |-> TRUE, entries |-> <<>>]
Result(entries) == [null |-> FALSE, entries |-> entries]

(***************************************************************************)
(* The inputs of a quote and the answers of the remote quoter.             *)
(***************************************************************************)
TokenA == Token("0xaa", 9)
TokenB == Token("0xbb", 0)

QuotePoolA == mapPage(<<RawA>>)[1]
QuotePoolB == mapPage(<<RawB>>)[1]
CandidateLists == { <<>>, <<QuotePoolA>>, <<QuotePoolA, QuotePoolB>> }

FeeParams ==
    { TransferFees(0, 0, 0, 0), TransferFees(0, 0, 5000, 0),
      TransferFees(0, 0, 0, 5000) }

\* a request: sell A or B, or buy B; a sell moves large amounts, a buy small ones
Requests ==
    { [from |-> TokenA, to |-> TokenB, side |-> "SELL"],
      [from |-> TokenB, to |-> TokenA, side |-> "SELL"],
      [from |-> TokenA, to |-> TokenB, side |-> "BUY"] }

AmountValues(side) == IF side = "SELL" THEN {0, 400000000, 800000000} ELSE {0, 1, 2}

\* non-decreasing amount vectors of 1..MaxAmounts entries
AmountVectors(side) ==
    UNION { { v \in [1..n -> AmountValues(side)] :
                \A i \in 1..(n - 1) : v[i] <= v[i + 1] } : n \in 1..MaxAmounts }

\* the remote quoter: non-decreasing in the amount, one curve per deployer
RemoteQuoters == {"steep", "flat"}

stepQuote(amount) ==
    IF amount = 0 THEN 0 ELSE IF amount \in {1, 200000000, 400000000} THEN 1 ELSE 2

flatQuote(amount) == IF amount = 0 THEN 0 ELSE 1

remoteQuote(quoter, call) ==
    IF (quoter = "steep") = (call.deployer = NULL_ADDRESS)
    THEN stepQuote(call.amount) ELSE flatQuote(call.amount)

\* tryAggregate(false, calldata): one (success, returnData) per call, in call order
aggregateResults(calls, failed, quoter) ==
    [k \in 1..Len(calls) |->
        IF k \in failed THEN [success |-> FALSE, returnData |-> 0]
        ELSE [success |-> TRUE, returnData |-> remoteQuote(quoter, calls[k])]]

(***************************************************************************)
(* getPricingFromRpc, one step per suspension point.                       *)
(***************************************************************************)
\* entry: no pools, no request; else the calls are built and one batch is sent
GetPricingFromRpcCall ==
    /\ qPc = "idle"
    /\ IF Len(qPools) = 0
       THEN /\ qPc' = "done"
            /\ qResult' = NullResult
            /\ lastOp' = "quoteNoPools"
            /\ UNCHANGED <<qChunked, qCalldata, qBatches>>
       ELSE LET isSELL == qSide = "SELL"
                unitVolume == getBigIntPow((IF isSELL THEN qFrom ELSE qTo).decimals)
                chunked == chunkedAmounts(qAmounts, unitVolume, chunksCount)
            IN  /\ qPc' = "waiting"
                /\ qChunked' = chunked
                /\ qCalldata' = buildCalldata(qFrom, qTo, qPools,
                                              amountsForQuote(chunked, qSide, qFees),
                                              isSELL)
                /\ qBatches' = qBatches + 1
                /\ lastOp' = "quoteCall"
                /\ UNCHANGED qResult
    /\ UNCHANGED <<chunksCount, qFrom, qTo, qAmounts, qSide, qPools, qFees,
                   qResults, qRates, factoryVars, lookupVars, poolVars, volumeVars>>

\* tryAggregate answers: the result is built from the per-call outcomes
TryAggregateReturn(failed, quoter) ==
    /\ qPc = "waiting"
    /\ qResults' = aggregateResults(qCalldata, failed, quoter)
    /\ qRates' = [p \in 1..Len(qPools) |->
                    poolRates(qResults', qChunked, p - 1,
                              Len(amountsForQuote(qChunked, qSide, qFees)),
                              qSide = "SELL")]
    /\ qResult' = Result([p \in 1..Len(qPools) |->
                            poolPrices(qFrom, qTo, qAmounts, qSide, qPools, qFees,
                                       qChunked, qResults', p - 1)])
    /\ qPc' = "done"
    /\ lastOp' = "quoteDone"
    /\ UNCHANGED <<chunksCount, qFrom, qTo, qAmounts, qSide, qPools, qFees,
                   qChunked, qCalldata, qBatches, factoryVars, lookupVars, poolVars, volumeVars>>

(***************************************************************************)
(* HydrexFi.getPoolIdentifiers and HydrexFi.getPricesVolume.               *)
(***************************************************************************)
MaxQuotes == 2         \* quotes asked one after the other

\* dexHelper.config.wrapETH on a Token
wrapETHToken(token) == Token(wrapETH(token.address), token.decimals)

\* _getLoweredAddresses raises on a token without an address
loweredAddressesThrow(srcToken, destToken) ==
    srcToken.address = undefined \/ destToken.address = undefined

getLoweredAddresses(srcToken, destToken) ==
    <<toLowerCase(srcToken.address), toLowerCase(destToken.address)>>

getPoolIdentifiers(ps, srcToken, destToken, side, blockNumber, engine) ==
    LET lowered == getLoweredAddresses(wrapETHToken(srcToken), wrapETHToken(destToken))
        found == getAvailablePoolsForPair(ps, lowered[1], lowered[2], blockNumber,
                                          engine)
    IN  IF lowered[1] = lowered[2] THEN <<>>
        ELSE [i \in 1..Len(found) |->
                getPoolIdentifier(lowered[1], lowered[2], found[i].deployer)]

\* variant without the source-fee check
rejectsSrcFeeOnBuyNever(fees, side) == FALSE

\* a source-side transfer fee cannot be quoted on BUY
rejectsSrcFeeOnBuy(fees, side) ==
    isSrcTokenTransferFeeToBeExchanged(fees) /\ side = "BUY"

\* limitPools: keep the pools whose identifier is listed, all when nothing is listed
limitPoolsFilter(ps, limitPools, srcAddress, destAddress) ==
    LET listed(pool) ==
            getPoolIdentifier(srcAddress, destAddress, pool.deployer) \in limitPools
    IN  IF limitPools # {} THEN SelectSeq(ps, listed) ELSE ps

\* variant without the catch
getPricesVolumeOnErrorRethrow(stage) == [threw |-> TRUE, result |-> NullResult]

\* catch (e) { logger.error(...); return null; }
getPricesVolumeOnError(stage) == [threw |-> FALSE, result |-> NullResult]

getPricesVolumeEnds(outcome, raisedAt, op) ==
    /\ vPc' = "done"
    /\ vResult' = outcome.result
    /\ vThrew' = outcome.threw
    /\ vRaised' = raisedAt
    /\ lastOp' = op

\* entry: the checks, the lookup, and the arguments handed to getPricingFromRpc
GetPricesVolumeCall(req, limitPools) ==
    /\ vPc \in {"idle", "done"}
    /\ nQuotes < MaxQuotes
    /\ nQuotes' = nQuotes + 1
    /\ vSrc' = req.from /\ vDest' = req.to /\ vSide' = req.side
    /\ vFees' = req.fees /\ vLimit' = limitPools
    /\ vEverRaised' = (vEverRaised \/ vRaised # "none")
    /\ poolsAtQuote' = pools
    /\ qPc' = "idle"
    /\ qChunked' = <<>> /\ qCalldata' = <<>> /\ qBatches' = 0
    /\ qResults' = <<>> /\ qRates' = <<>> /\ qResult' = NullResult
    /\ IF rejectsSrcFeeOnBuy(req.fees, req.side)
       THEN /\ getPricesVolumeEnds([threw |-> FALSE, result |-> NullResult],
                                   "none", "volumeRejected")
            /\ UNCHANGED <<pools, qFrom, qTo, qAmounts, qSide, qPools, qFees>>
       ELSE IF loweredAddressesThrow(req.from, req.to)
       THEN /\ getPricesVolumeEnds(getPricesVolumeOnError("lookup"),
                                   "lookup", "volumeRaised")
            /\ UNCHANGED <<pools, qFrom, qTo, qAmounts, qSide, qPools, qFees>>
       ELSE LET _srcToken == wrapETHToken(req.from)
                _destToken == wrapETHToken(req.to)
                lowered == getLoweredAddresses(_srcToken, _destToken)
                found == getAvailablePoolsForPair(pools, lowered[1], lowered[2], 1,
                                                  sortEngine)
            IN  IF lowered[1] = lowered[2]
                THEN /\ getPricesVolumeEnds([threw |-> FALSE, result |-> NullResult],
                                            "none", "volumeRejected")
                     /\ UNCHANGED <<pools, qFrom, qTo, qAmounts, qSide, qPools, qFees>>
                ELSE /\ pools' = registryAfterLookup(pools, sortEngine)
                     /\ qFrom' = _srcToken /\ qTo' = _destToken
                     /\ qAmounts' = req.amounts /\ qSide' = req.side
                     /\ qFees' = req.fees
                     /\ qPools' = limitPoolsFilter(found, limitPools,
                                                   lowered[1], lowered[2])
                     /\ vPc' = "pricing"
                     /\ vRaised' = "none"
                     /\ lastOp' = "volumeCall"
                     /\ vResult' = NullResult
                     /\ vThrew' = FALSE
    /\ UNCHANGED <<initPc, initAcc, initSkip, initLatest, initRetries,
                   initRequests, initFetched, lastError,
                   poolsAtCall, appended, factoryThrew, lastFactoryLog,
                   poolsBeforeLog, nFactoryLogs, nInits, lookupVars, poolVars,
                   chunksCount>>

\* getPricingFromRpc returned: its value is the value of the quote
GetPricesVolumeReturn ==
    /\ vPc = "pricing"
    /\ qPc = "done"
    /\ getPricesVolumeEnds([threw |-> FALSE, result |-> qResult], "none",
                           "volumeDone")
    /\ UNCHANGED <<vSrc, vDest, vSide, vFees, vLimit, vEverRaised, poolsAtQuote,
                   nQuotes, factoryVars, lookupVars, poolVars, quoteVars>>

\* the batched request is rejected ("request"), or building the result from
\* its answer raises ("interpolate"): the error reaches the catch of the quote
PricingRaises(stage) ==
    /\ vPc = "pricing"
    /\ qPc = "waiting"
    /\ qPc' = "done"
    /\ getPricesVolumeEnds(getPricesVolumeOnError(stage), stage, "volumeRaised")
    /\ UNCHANGED <<vSrc, vDest, vSide, vFees, vLimit, vEverRaised, poolsAtQuote,
                   nQuotes, factoryVars, lookupVars, poolVars,
                   chunksCount, qFrom, qTo, qAmounts, qSide, qPools, qFees,
                   qChunked, qCalldata, qBatches, qResults, qRates, qResult>>

GetPoolIdentifiers(srcToken, destToken, side, blockNumber) ==
    /\ vPc \in {"idle", "done"}
    /\ ~loweredAddressesThrow(srcToken, destToken)
    /\ lkSrc' = srcToken.address
    /\ lkDest' = destToken.address
    /\ lkHeight' = blockNumber
    /\ lkResult' = LET lowered == getLoweredAddresses(wrapETHToken(srcToken),
                                                      wrapETHToken(destToken))
                   IN  IF lowered[1] = lowered[2] THEN <<>>
                       ELSE getAvailablePoolsForPair(pools, lowered[1], lowered[2],
                                                     blockNumber, sortEngine)
    /\ idResult' = getPoolIdentifiers(pools, srcToken, destToken, side, blockNumber,
                                      sortEngine)
    /\ lkPrevResult' = lkResult
    /\ lkRepeat' = FALSE
    /\ poolsBeforeLookup' = pools
    /\ pools' = registryAfterLookup(pools, sortEngine)
    /\ lastOp' = "identifiers"
    /\ UNCHANGED <<initPc, initAcc, initSkip, initLatest, initRetries,
                   initRequests, initFetched, lastError,
                   poolsAtCall, appended, factoryThrew, lastFactoryLog,
                   poolsBeforeLog, nFactoryLogs, nInits, sortEngine,
                   poolVars, quoteVars, volumeVars>>

(***************************************************************************)
(* Initial states and specifications.                                      *)
(***************************************************************************)
\* the arguments of the quote are drawn here; getPricingFromRpc keeps no state
InitQuoteVars ==
    /\ chunksCount \in 1..MaxChunks
    /\ qPc = "idle"
    /\ \E req \in Requests :
         /\ qFrom = req.from
         /\ qTo = req.to
         /\ qSide = req.side
         /\ qAmounts \in AmountVectors(req.side)
    /\ qPools \in CandidateLists
    /\ qFees \in FeeParams
    /\ qChunked = <<>>
    /\ qCalldata = <<>>
    /\ qBatches = 0
    /\ qResults = <<>>
    /\ qRates = <<>>
    /\ qResult = NullResult

InitIdleQuoteVars ==
    /\ chunksCount = 1
    /\ qPc = "idle"
    /\ qFrom = TokenA
    /\ qTo = TokenB
    /\ qAmounts = <<0>>
    /\ qSide = "SELL"
    /\ qPools = <<>>
    /\ qFees = TransferFees(0, 0, 0, 0)
    /\ qChunked = <<>>
    /\ qCalldata = <<>>
    /\ qBatches = 0
    /\ qResults = <<>>
    /\ qRates = <<>>
    /\ qResult = NullResult

InitIdleVolumeVars ==
    /\ vPc = "idle"
    /\ vSrc = TokenA
    /\ vDest = TokenB
    /\ vSide = "SELL"
    /\ vFees = TransferFees(0, 0, 0, 0)
    /\ vLimit = {}
    /\ vResult = NullResult
    /\ vThrew = FALSE
    /\ vRaised = "none"
    /\ vEverRaised = FALSE
    /\ poolsAtQuote = <<>>
    /\ nQuotes = 0

InitFactoryVars ==
    /\ pools = <<>>
    /\ initPc = "idle"
    /\ initAcc = <<>>
    /\ initSkip = 0
    /\ initLatest = FALSE
    /\ initRetries = 0
    /\ initRequests = <<>>
    /\ initFetched = <<>>
    /\ lastError = "none"
    /\ poolsAtCall = <<>>
    /\ appended = <<>>
    /\ factoryThrew = FALSE
    /\ lastFactoryLog = FactoryLog(TRUE, "DefaultCommunityFee", undefined, undefined,
                                   undefined, undefined)
    /\ poolsBeforeLog = <<>>
    /\ nFactoryLogs = 0
    /\ nInits = 0

InitIdleLookupVars ==
    /\ sortEngine = "timsort"
    /\ lkSrc = undefined
    /\ lkDest = undefined
    /\ lkHeight = 0
    /\ lkResult = <<>>
    /\ lkPrevResult = <<>>
    /\ lkRepeat = FALSE
    /\ poolsBeforeLookup = <<>>
    /\ idResult = <<>>

InitialPoolStates ==
    { PoolState(p, l, t, f, f) : p \in {0, 7}, l \in {0, 2}, t \in {0, 3}, f \in {0, 4} }

InitPoolVars ==
    /\ state \in InitialPoolStates
    /\ prevState = state
    /\ lastLog = PoolLog(TRUE, "Fee", TRUE, Absent, Absent, Absent)
    /\ lastRet = ReturnedNull
    /\ poolThrew = FALSE
    /\ lastRead = ChainRead(Absent, Absent, Absent, Absent, Absent)
    /\ shadow = state
    /\ sawMalformed = FALSE
    /\ liquidityBase = state.liquidity
    /\ addedSum = 0
    /\ removedSum = 0
    /\ nLogs = 0

InitIdlePoolVars ==
    /\ state = defaultPoolState
    /\ prevState = state
    /\ lastLog = PoolLog(TRUE, "Fee", TRUE, Absent, Absent, Absent)
    /\ lastRet = ReturnedNull
    /\ poolThrew = FALSE
    /\ lastRead = ChainRead(Absent, Absent, Absent, Absent, Absent)
    /\ shadow = state
    /\ sawMalformed = FALSE
    /\ liquidityBase = state.liquidity
    /\ addedSum = 0
    /\ removedSum = 0
    /\ nLogs = 0

\* the registry: bulk load interleaved with the event stream
InitFactory ==
    /\ InitFactoryVars /\ InitIdleLookupVars /\ InitIdlePoolVars /\ InitIdleQuoteVars
    /\ InitIdleVolumeVars /\ lastOp = "none"

NextFactory ==
    \/ InitializeCall
    \/ \E page \in ShortPages : PageReturn(page)
    \/ \E message \in ErrorMessages : PageBlockUnavailable(message)
    \/ \E message \in ErrorMessages : PageError(message)
    \/ \E log \in FactoryLogs : FactoryProcessLog(log)

SpecFactory == InitFactory /\ [][NextFactory]_vars

\* the registry: repeated bulk loads over short and full pages
NextPaging ==
    \/ InitializeCall
    \/ \E page \in RawPages : PageReturn(page)
    \/ \E message \in ErrorMessages : PageBlockUnavailable(message)
    \/ \E message \in ErrorMessages : PageError(message)

SpecPaging == InitFactory /\ [][NextPaging]_vars

\* one synchronizer: logs and resyncs
InitPool ==
    /\ InitFactoryVars /\ InitIdleLookupVars /\ InitPoolVars /\ InitIdleQuoteVars
    /\ InitIdleVolumeVars /\ lastOp = "none"

NextPool ==
    \/ \E log \in PoolLogs : ApplyLog(log)
    \/ \E read \in ChainReads : GenerateStateOk(read)
    \/ GenerateStateFail

SpecPool == InitPool /\ [][NextPool]_vars

\* the sampler: one quote over given candidate pools
InitQuote ==
    /\ InitFactoryVars /\ InitIdleLookupVars /\ InitIdlePoolVars /\ InitQuoteVars
    /\ InitIdleVolumeVars /\ lastOp = "none"

NextQuote ==
    \/ GetPricingFromRpcCall
    \/ \E failed \in SUBSET (1..Len(qCalldata)), quoter \in RemoteQuoters :
         TryAggregateReturn(failed, quoter)

SpecQuote == InitQuote /\ [][NextQuote]_vars

\* the registry after a bulk load and events: up to MaxRegistry entries, two of
\* them with tvl 0 for the pair (aa, bb), in either orientation
EventPool == handleNewPool(<<>>, FactoryLog(TRUE, "Pool", "0xAA", "0xbb", "0xp2",
                                           undefined))[1]
OtherPairPool == mapPage(<<RawPool("0xp4", NULL_ADDRESS, Num(7000), "0xaa", "0xCC")>>)[1]
RegistryEntries == {QuotePoolA, QuotePoolB, EventPool, OtherPairPool}
RegistryLists == UNION { [1..n -> RegistryEntries] : n \in 0..MaxRegistry }

InitLoadedFactoryVars ==
    /\ pools \in RegistryLists
    /\ initPc = "idle"
    /\ initAcc = <<>>
    /\ initSkip = 0
    /\ initLatest = FALSE
    /\ initRetries = 0
    /\ initRequests = <<>>
    /\ initFetched = <<>>
    /\ lastError = "none"
    /\ poolsAtCall = <<>>
    /\ appended = <<>>
    /\ factoryThrew = FALSE
    /\ lastFactoryLog = FactoryLog(TRUE, "DefaultCommunityFee", undefined, undefined,
                                   undefined, undefined)
    /\ poolsBeforeLog = pools
    /\ nFactoryLogs = 0
    /\ nInits = 0

InitLookupVars ==
    /\ sortEngine \in SortEngines
    /\ lkSrc = undefined
    /\ lkDest = undefined
    /\ lkHeight = 0
    /\ lkResult = <<>>
    /\ lkPrevResult = <<>>
    /\ lkRepeat = FALSE
    /\ poolsBeforeLookup = pools
    /\ idResult = <<>>

\* the registry answering pair lookups between creation events
InitLookup ==
    /\ InitLoadedFactoryVars /\ InitLookupVars /\ InitIdlePoolVars /\ InitIdleQuoteVars
    /\ InitIdleVolumeVars /\ lastOp = "none"

\* the logs delivered between lookups
LookupLogs ==
    { FactoryLog(FALSE, undefined, undefined, undefined, undefined, undefined),
      FactoryLog(TRUE, "Pool", "0xbb", "0xAA", "0xp2", undefined),
      FactoryLog(TRUE, "CustomPool", "0xAA", "0xbb", "0xp2", "0xDD") }

NextLookup ==
    \/ \E pair \in LookupPairs, blockNumber \in Heights :
         GetAvailablePoolsForPair(pair[1], pair[2], blockNumber)
    \/ \E log \in LookupLogs : FactoryProcessLog(log)

SpecLookup == InitLookup /\ [][NextLookup]_vars

\* the tokens of a quote: mixed-case and lower-case spellings of A, the native
\* asset (quoted as A), B, a token without pools, and a token without address
TokenUpperA == Token("0xAA", 9)
TokenNative == Token(ETHER_ADDRESS, 9)
TokenC == Token("0xcc", 0)
TokenNoAddress == Token(undefined, 0)

VolumeRequest(from, to, side, amounts, fees) ==
    [from |-> from, to |-> to, side |-> side, amounts |-> amounts, fees |-> fees]

VolumeRequests ==
    { VolumeRequest(TokenUpperA, TokenB, "SELL", <<0, 400000000, 800000000>>,
                    TransferFees(0, 0, 0, 0)),
      VolumeRequest(TokenNative, TokenB, "BUY", <<0, 1, 2>>, TransferFees(0, 0, 0, 0)),
      VolumeRequest(TokenUpperA, TokenB, "SELL", <<400000000>>,
                    TransferFees(0, 0, 5000, 0)),
      VolumeRequest(TokenUpperA, TokenB, "BUY", <<0, 1, 2>>,
                    TransferFees(0, 0, 5000, 0)),
      VolumeRequest(TokenNative, TokenUpperA, "SELL", <<400000000>>,
                    TransferFees(0, 0, 0, 0)),
      VolumeRequest(TokenUpperA, TokenA, "SELL", <<400000000>>,
                    TransferFees(0, 0, 0, 0)),
      VolumeRequest(TokenUpperA, TokenC, "SELL", <<400000000>>,
                    TransferFees(0, 0, 0, 0)),
      VolumeRequest(TokenNoAddress, TokenB, "SELL", <<400000000>>,
                    TransferFees(0, 0, 0, 0)) }

\* limitPools: none, or the identifier of the custom-deployer pool of (A, B);
\* a quote is also asked with what getPoolIdentifiers returned last
LimitPools == { {}, {getPoolIdentifier("0xaa", "0xbb", "0xdd")} }

\* the pairs getPoolIdentifiers is asked for
IdentifierPairs ==
    { <<TokenUpperA, TokenB>>, <<TokenB, TokenUpperA>>, <<TokenNative, TokenUpperA>>,
      <<TokenUpperA, TokenC>> }

\* the registries the quotes run over
VolumeRegistries ==
    { <<OtherPairPool>>, <<QuotePoolA>>, <<QuotePoolB, QuotePoolA>> }

InitVolumeQuoteVars ==
    /\ chunksCount \in 1..MaxChunks
    /\ qPc = "idle"
    /\ qFrom = TokenA
    /\ qTo = TokenB
    /\ qAmounts = <<0>>
    /\ qSide = "SELL"
    /\ qPools = <<>>
    /\ qFees = TransferFees(0, 0, 0, 0)
    /\ qChunked = <<>>
    /\ qCalldata = <<>>
    /\ qBatches = 0
    /\ qResults = <<>>
    /\ qRates = <<>>
    /\ qResult = NullResult

\* the calls of a batch of n that fail: none, the first, the last, all
FailedCalls(n) == { {}, {1}, {n}, 1..n }

\* quotes for token pairs over a loaded registry
InitVolume ==
    /\ InitLoadedFactoryVars /\ pools \in VolumeRegistries
    /\ InitIdleLookupVars /\ InitIdlePoolVars
    /\ InitVolumeQuoteVars
    /\ InitIdleVolumeVars /\ lastOp = "none"

NextVolume ==
    \/ \E req \in VolumeRequests,
          limitPools \in LimitPools \cup { {idResult[i] : i \in 1..Len(idResult)} } :
         GetPricesVolumeCall(req, limitPools)
    \/ vPc = "pricing" /\ GetPricingFromRpcCall
    \/ \E failed \in FailedCalls(Len(qCalldata)), quoter \in RemoteQuoters :
         vPc = "pricing" /\ TryAggregateReturn(failed, quoter)
    \/ \E stage \in {"request", "interpolate"} : PricingRaises(stage)
    \/ GetPricesVolumeReturn
    \/ \E pair \in IdentifierPairs : GetPoolIdentifiers(pair[1], pair[2], "SELL", 1)

SpecVolume == InitVolume /\ [][NextVolume]_vars

(***************************************************************************)
(* Quotes while the registry changes: creation events and bulk loads run   *)
(* while getPricingFromRpc is suspended on tryAggregate (those that run    *)
(* while no batch is in flight only change the registry the next quote     *)
(* starts from, and are left out).                                         *)
(***************************************************************************)
\* the quotes asked while the registry changes
SnapshotRequests ==
    { VolumeRequest(TokenNative, TokenB, "SELL", <<0, 400000000, 800000000>>,
                    TransferFees(0, 0, 0, 0)) }

\* the creation events delivered meanwhile: a pool of the quoted pair
SnapshotLogs ==
    { FactoryLog(TRUE, "Pool", "0xbb", "0xAA", "0xp2", undefined),
      FactoryLog(TRUE, "CustomPool", "0xAA", "0xbb", "0xp2", "0xDD") }

\* the answers of the dataset to a bulk load started meanwhile
SnapshotPages == { <<>>, <<RawA, RawB>> }

\* a registry without a pool of the quoted pair, and one with two of them
InitSnapshot == InitVolume /\ pools \in { <<OtherPairPool>>, <<QuotePoolB, QuotePoolA>> }

NextSnapshot ==
    \/ \E req \in SnapshotRequests, limitPools \in LimitPools :
         GetPricesVolumeCall(req, limitPools)
    \/ vPc = "pricing" /\ GetPricingFromRpcCall
    \/ \E failed \in { {}, {1} } :
         vPc = "pricing" /\ TryAggregateReturn(failed, "steep")
    \/ GetPricesVolumeReturn
    \/ \E log \in SnapshotLogs : qPc = "waiting" /\ FactoryProcessLog(log)
    \/ qPc = "waiting" /\ InitializeCall
    \/ \E page \in SnapshotPages : qPc = "waiting" /\ PageReturn(page)

SpecSnapshot == InitSnapshot /\ [][NextSnapshot]_vars

(***************************************************************************)
(* Properties.                                                             *)
(***************************************************************************)

\* C1: when the bulk load of initialize() aborts with a remote error other than
\* block-unavailable, the registry holds exactly the pools it held when
\* initialize() was called (followed by what events pushed meanwhile): nothing
\* is replaced.
C1_AbortKeepsPriorPools ==
    lastOp = "initAborted" => pools = poolsAtCall \o appended

\* C2: every pool pushed by a creation event while initialize() was suspended on
\* its pages is still in the registry once initialize() has completed.
C2_EventPoolsSurviveInitialize ==
    lastOp = "initDone" =>
        \A i \in 1..Len(appended) : \E j \in 1..Len(pools) : pools[j] = appended[i]

\* C3: starting from liquidity >= 0, the liquidity of the summary is never
\* negative, whatever logs are applied.
C3_LiquidityNeverNegative == state.liquidity >= 0

\* C4: a Trade (Swap) event carrying price p and tick t leaves the summary with
\* price p and tick t, for every p and every t, zero and negative included.
C4_TradeOverwritesPriceAndTick ==
    ( /\ lastOp = "poolLog"
      /\ lastLog.decodable /\ lastLog.name = "Swap" /\ lastLog.hasArgs
      /\ lastLog.sqrtPriceX96.k = "val" /\ lastLog.tick.k = "val" )
    => /\ state.sqrtPriceX96 = lastLog.sqrtPriceX96.v
       /\ state.tick = lastLog.tick.v

\* C5: no log makes processLog raise; a malformed or undecodable log of a
\* recognized kind leaves the summary as it was; and the summary always equals
\* the one obtained from the same logs with the malformed ones left out.
C5_MalformedLogsAreSkipped ==
    /\ ~poolThrew
    /\ state = shadow
    /\ (lastOp = "poolLog" /\ MalformedPoolLog(lastLog)) => state = prevState

\* a well-formed log changed the summary after a malformed one had been applied
C5_Witness ==
    /\ lastOp = "poolLog"
    /\ sawMalformed
    /\ ~MalformedPoolLog(lastLog)
    /\ state # prevState

\* a registry log that is undecodable, of no handled kind, or a creation event
\* without its token / deployer arguments
BadFactoryLog(log) ==
    \/ ~log.decodable
    \/ log.name \notin factoryHandlers
    \/ log.token0 = undefined
    \/ log.token1 = undefined
    \/ log.name = "CustomPool" /\ log.deployer = undefined

\* C6: such a log is dropped silently by the registry: its processLog raises
\* nothing and the pool list is unchanged.
C6_BadRegistryLogsDroppedSilently ==
    (lastOp = "factoryLog" /\ BadFactoryLog(lastFactoryLog))
    => (~factoryThrew /\ pools = poolsBeforeLog)

\* C7: a quote over a non-empty candidate list issues exactly one batched
\* request, which holds exactly chunksCount + 1 calls for every candidate pool,
\* whatever the length of the requested amount vector.
C7_OneBatchOfBoundedCalls ==
    (qPc \in {"waiting", "done"} /\ Len(qPools) > 0)
    => /\ qBatches = 1
       /\ Len(qCalldata) = Len(qPools) * (chunksCount + 1)
       /\ \A p \in 1..Len(qPools) :
            Cardinality({k \in 1..Len(qCalldata) :
                           /\ (k - 1) \div (chunksCount + 1) = p - 1
                           /\ qCalldata[k].deployer = qPools[p].deployer})
              = chunksCount + 1

\* a finished quote over two pools whose amount vector is shorter than
\* chunksCount + 1
C7_Witness ==
    /\ lastOp = "quoteDone"
    /\ Len(qPools) = 2
    /\ Len(qAmounts) < chunksCount + 1
    /\ Len(qCalldata) = 2 * (chunksCount + 1)

\* C8: when the requested vector starts with zero, no remote call carries the
\* amount zero and the price returned for the zero entry is zero for every pool.
C8_ZeroAmountNeverQuoted ==
    (qPc \in {"waiting", "done"} /\ Len(qPools) > 0 /\ qAmounts[1] = 0)
    => /\ \A k \in 1..Len(qCalldata) : qCalldata[k].amount # 0
       /\ (qPc = "done" /\ ~qResult.null) =>
             \A p \in 1..Len(qResult.entries) : qResult.entries[p].prices[1] = 0

\* every call of the batch failed, for a non-empty candidate list
AllCallsFailed == qPc = "done" /\ Len(qPools) > 0 /\ allFailed(qResults)

\* C9 as stated: when every call fails the result is non-null with one entry
\* per pool, and every sample's output is the linear approximation of the
\* sample's amount and is not zero.
C9_FallbackNeverZero ==
    AllCallsFailed
    => /\ ~qResult.null
       /\ Len(qResult.entries) = Len(qPools)
       /\ \A p \in 1..Len(qPools) : \A i \in 1..(chunksCount + 1) :
            /\ qRates[p][i] = getMockPriceForTesting(qChunked[i], qSide = "SELL")
            /\ qRates[p][i] # 0

\* C9 amended: when every call fails the result is non-null with one entry per
\* pool, and every sample's output is the linear approximation of the sample's
\* amount before fees: amount * 2500 / 10^12 on SELL, amount * 10^12 / 2500 on
\* BUY, which is zero exactly when the amount is below 10^12 / 2500 on SELL and
\* when it is zero on BUY.
C9_AllFailedUsesLinearFallback ==
    AllCallsFailed
    => /\ ~qResult.null
       /\ Len(qResult.entries) = Len(qPools)
       /\ \A p \in 1..Len(qPools) : \A i \in 1..(chunksCount + 1) :
            /\ qSide = "SELL" => qRates[p][i] = qChunked[i] \div 400000000
            /\ qSide = "BUY" => qRates[p][i] = qChunked[i] * 400000000
            /\ qRates[p][i] = 0 <=>
                 IF qSide = "SELL" THEN qChunked[i] < 400000000
                 ELSE qChunked[i] = 0

\* every call of a quote over two pools failed, and a sample got a non-zero
\* approximation
C9_Witness ==
    /\ AllCallsFailed
    /\ Len(qPools) = 2
    /\ \E i \in 1..(chunksCount + 1) : qRates[2][i] > 0

\* C10: when some but not all calls fail, a failed sample gets output zero, a
\* successful sample keeps the value its call returned, and the result has an
\* entry for every pool.
C10_PartialFailureZeroesOnlyFailed ==
    ( /\ qPc = "done" /\ Len(qPools) > 0
      /\ ~allFailed(qResults)
      /\ \E k \in 1..Len(qResults) : ~qResults[k].success )
    => /\ ~qResult.null
       /\ Len(qResult.entries) = Len(qPools)
       /\ \A p \in 1..Len(qPools) : \A i \in 1..(chunksCount + 1) :
            LET res == qResults[(p - 1) * (chunksCount + 1) + i]
            IN  qRates[p][i] = IF res.success THEN res.returnData ELSE 0

\* all calls of the first pool failed, all calls of the second succeeded, and
\* the second pool kept a non-zero value
C10_Witness ==
    /\ qPc = "done"
    /\ Len(qPools) = 2
    /\ \A k \in 1..Len(qResults) : qResults[k].success <=> k > chunksCount + 1
    /\ \E i \in 1..(chunksCount + 1) : qRates[2][i] > 0
    /\ Len(qResult.entries) = 2

\* C11: for a SELL request the prices returned for each pool are non-decreasing
\* along the (non-decreasing) requested amounts, whatever calls failed.
C11_SellPricesNonDecreasing ==
    (qPc = "done" /\ ~qResult.null /\ qSide = "SELL")
    => \A p \in 1..Len(qResult.entries) :
         \A j, k \in 1..Len(qAmounts) :
            j < k => qResult.entries[p].prices[j] <= qResult.entries[p].prices[k]

\* a decoded creation event of a handled kind that carries all its arguments
WellFormedCreation(log) ==
    /\ log.decodable
    /\ log.name \in factoryHandlers
    /\ log.token0 # undefined /\ log.token1 # undefined /\ log.pool # undefined
    /\ log.name = "CustomPool" => log.deployer # undefined

\* C18: a log never removes, changes or moves an entry of the registry; a
\* well-formed Pool event appends exactly one entry whose deployer is the null
\* address, a well-formed CustomPool event exactly one entry whose deployer is
\* the event's deployer (lower-cased), whether or not the address is already in
\* the registry.
C18_EventsAppendOnly ==
    lastOp = "factoryLog" =>
        /\ Len(pools) \in {Len(poolsBeforeLog), Len(poolsBeforeLog) + 1}
        /\ SubSeq(pools, 1, Len(poolsBeforeLog)) = poolsBeforeLog
        /\ WellFormedCreation(lastFactoryLog) =>
             pools = Append(poolsBeforeLog,
                        [poolAddress |-> toLowerCase(lastFactoryLog.pool),
                         token0 |-> toLowerCase(lastFactoryLog.token0),
                         token1 |-> toLowerCase(lastFactoryLog.token1),
                         deployer |-> IF lastFactoryLog.name = "Pool"
                                      THEN NULL_ADDRESS
                                      ELSE toLowerCase(lastFactoryLog.deployer),
                         tvlUSD |-> 0])

\* a CustomPool event appended an entry whose address the registry already held
C18_Witness ==
    /\ lastOp = "factoryLog"
    /\ lastFactoryLog.name = "CustomPool"
    /\ Len(pools) = Len(poolsBeforeLog) + 1
    /\ pools[Len(pools)].deployer = "0xdd"
    /\ \E j \in 1..Len(poolsBeforeLog) :
         pools[j].poolAddress = pools[Len(pools)].poolAddress

\* C19: no two entries of the registry have the same pool address.
C19_PoolAddressesUnique ==
    \A i, j \in 1..Len(pools) :
        i # j => pools[i].poolAddress # pools[j].poolAddress

\* C20: a 'missing block' / 'not yet available' answer makes the registry ask
\* for the same page again (same skip, nothing accumulated or stored meanwhile)
\* without the pinned height, and the load goes on with the page that request
\* returns; every other error aborts the load.
C20_BlockUnavailableRetriesLatest ==
    [][ /\ lastOp' \in {"initRetry", "initAborted"} =>
             (lastOp' = "initRetry"
                 <=> lastError' \in {"missing block", "not yet available"})
        /\ lastOp' = "initRetry" =>
             /\ initPc' = "waiting" /\ initLatest'
             /\ initSkip' = initSkip /\ initAcc' = initAcc /\ pools' = pools
        /\ lastOp' = "initAborted" => initPc' = "idle"
        /\ (lastOp = "initRetry" /\ lastOp' = "initDone") =>
             \E page \in RawPages : pools' = initAcc \o mapPage(page)
        /\ (lastOp = "initRetry" /\ lastOp' = "initPage") =>
             \E page \in RawPages : initAcc' = initAcc \o mapPage(page)
      ]_vars

\* a bulk load completed with pools from a page that was re-requested at the
\* latest block after 'not yet available'
C20_Witness ==
    /\ lastOp = "initDone"
    /\ initRetries > 0 /\ initLatest
    /\ lastError = "not yet available"
    /\ Len(pools) > 0

\* the number of times e occurs in seq
Occurrences(seq, e) == Cardinality({i \in 1..Len(seq) : seq[i] = e})

\* pool is an entry for the pair of the last lookup, in either orientation
IsLookedUpPair(pool) ==
    LET a == toLowerCase(wrapETH(lkSrc))
        b == toLowerCase(wrapETH(lkDest))
    IN  \/ pool.token0 = a /\ pool.token1 = b
        \/ pool.token0 = b /\ pool.token1 = a

\* C15: a lookup returns every registry entry of the pair, in either
\* orientation, as many times as the registry holds it, and no other entry; the
\* result is ordered by non-increasing tvl and is the same for every height.
C15_LookupReturnsExactlyThePair ==
    lastOp = "lookup" =>
        /\ \A e \in {pools[i] : i \in 1..Len(pools)}
                      \cup {lkResult[i] : i \in 1..Len(lkResult)} :
              Occurrences(lkResult, e)
                 = IF IsLookedUpPair(e) THEN Occurrences(pools, e) ELSE 0
        /\ \A i, j \in 1..Len(lkResult) :
              i < j => lkResult[i].tvlUSD >= lkResult[j].tvlUSD
        /\ \A h \in Heights :
              getAvailablePoolsForPair(pools, lkSrc, lkDest, h, sortEngine) = lkResult

\* a lookup returned entries of both orientations, one of them twice, ahead of
\* entries with a smaller tvl, and left out an entry of another pair
C15_Witness ==
    /\ lastOp = "lookup"
    /\ \E i, j \in 1..Len(lkResult) : i < j /\ lkResult[i] = lkResult[j]
    /\ \E i, j \in 1..Len(lkResult) :
          lkResult[i].token0 = "0xaa" /\ lkResult[j].token0 = "0xbb"
    /\ \E i, j \in 1..Len(lkResult) : lkResult[i].tvlUSD > lkResult[j].tvlUSD
    /\ \E i \in 1..Len(pools) : ~IsLookedUpPair(pools[i])

C17_LookupIdempotentReadOnly ==
    lastOp = "lookup" =>
        /\ pools = poolsBeforeLookup
        /\ lkRepeat => lkResult = lkPrevResult

\* the same pair was looked up twice in a row in a registry that is not in tvl
\* order, and the lookups returned several entries
C17_Witness ==
    /\ lastOp = "lookup"
    /\ lkRepeat
    /\ Len(lkResult) >= 2
    /\ \E i, j \in 1..Len(pools) : i < j /\ pools[i].tvlUSD < pools[j].tvlUSD

\* C12: no error escapes getPricesVolume; a quote that raised during the pool
\* lookup, the batched request or the building of the result returned null;
\* and a quote leaves the registry as it found it.
C12_QuoteNeverThrows ==
    /\ ~vThrew
    /\ (vPc = "done" /\ vRaised # "none") => vResult.null
    /\ vPc \in {"pricing", "done"} => pools = poolsAtQuote

\* after a quote that raised, a quote for a pair returned prices
C12_Witness ==
    /\ lastOp = "volumeDone"
    /\ vEverRaised
    /\ ~vResult.null
    /\ Len(vResult.entries) > 0

\* the two tokens are the same once wrapped and lower-cased
ResolveToSameAddress(a, b) ==
    /\ a.address # undefined /\ b.address # undefined
    /\ toLowerCase(wrapETH(a.address)) = toLowerCase(wrapETH(b.address))

\* C13: a quote whose tokens resolve to the same address, or a BUY quote with a
\* source-side transfer fee, returns null and issues no remote call.
C13_RejectsWithoutRemoteCall ==
    ( /\ vPc # "idle"
      /\ \/ ResolveToSameAddress(vSrc, vDest)
         \/ (vFees.srcFee # 0 \/ vFees.srcDexFee # 0) /\ vSide = "BUY" )
    => /\ vPc = "done"
       /\ vResult.null
       /\ ~vThrew
       /\ qBatches = 0 /\ qCalldata = <<>>

\* a BUY quote with a source-side fee was rejected although the registry holds
\* a pool for its pair
C13_Witness ==
    /\ lastOp = "volumeRejected"
    /\ vSide = "BUY" /\ vFees.srcDexFee # 0
    /\ ~ResolveToSameAddress(vSrc, vDest)
    /\ \E i \in 1..Len(pools) : pools[i].token0 = "0xaa" /\ pools[i].token1 = "0xbb"

\* the registry holds no entry for the pair {a, b} (addresses as given)
NoPoolFor(a, b) ==
    LET x == toLowerCase(wrapETH(a))
        y == toLowerCase(wrapETH(b))
    IN  \A i \in 1..Len(pools) :
           ~ \/ pools[i].token0 = x /\ pools[i].token1 = y
             \/ pools[i].token0 = y /\ pools[i].token1 = x

\* C14: when the registry holds no pool for the pair, the lookup returns the
\* empty list, getPoolIdentifiers returns the empty list, and a quote for the
\* pair returns null without a remote call.
C14_NoPoolNoQuote ==
    /\ (lastOp = "identifiers" /\ NoPoolFor(lkSrc, lkDest))
          => (lkResult = <<>> /\ idResult = <<>>)
    /\ ( /\ vPc # "idle"
         /\ vSrc.address # undefined /\ vDest.address # undefined
         /\ NoPoolFor(vSrc.address, vDest.address) )
          => /\ qBatches = 0 /\ qCalldata = <<>> /\ qPc # "waiting"
             /\ vPc = "done" => vResult.null

\* over a non-empty registry, getPoolIdentifiers returned nothing for a pair
\* without pools and a quote for such a pair then returned null
C14_Witness ==
    /\ lastOp = "volumeDone"
    /\ NoPoolFor(vSrc.address, vDest.address)
    /\ vResult.null
    /\ Len(pools) > 0
    /\ lkDest = "0xcc" /\ NoPoolFor(lkSrc, lkDest) /\ idResult = <<>>

\* C21: one page request is retried against the latest block at most once: a
\* page in flight never has more than one latest-block retry behind it.
C21_SingleLevelRetry ==
    initPc = "waiting" => initRetries <= 1

\* the requests of the bulk load that are not latest-block retries
FreshRequests ==
    LET pinned(request) == ~request.latest IN SelectSeq(initRequests, pinned)

\* pages.reduce((pools, page) => pools.concat(page), [])
RECURSIVE concatPages(_)
concatPages(pages) ==
    IF pages = <<>> THEN <<>>
    ELSE concatPages(SubSeq(pages, 1, Len(pages) - 1)) \o pages[Len(pages)]

\* C22: a bulk load asks for its pages with skip = 0, 1000, 2000, ... and
\* first = 1000 (a latest-block retry repeats the skip of the request before
\* it); it asks for the next page exactly when the page before had 1000 pools,
\* ends at the first page with fewer, and loads the pages it fetched, joined
\* in page order.
C22_PagesInOrderUntilShortPage ==
    /\ \A i \in 1..Len(initRequests) :
          /\ initRequests[i].first = 1000
          /\ initRequests[i].latest =>
                (i > 1 /\ initRequests[i].skip = initRequests[i - 1].skip)
    /\ \A k \in 1..Len(FreshRequests) : FreshRequests[k].skip = (k - 1) * 1000
    /\ initPc = "waiting" =>
          /\ Len(FreshRequests) = Len(initFetched) + 1
          /\ \A k \in 1..Len(initFetched) : Len(initFetched[k]) = 1000
          /\ initAcc = concatPages(initFetched)
    /\ lastOp = "initDone" =>
          /\ Len(FreshRequests) = Len(initFetched)
          /\ \A k \in 1..Len(initFetched) :
                (Len(initFetched[k]) = 1000) <=> (k < Len(initFetched))
          /\ pools = concatPages(initFetched)

\* a bulk load ended with a full page followed by a short, non-empty one
C22_Witness ==
    /\ lastOp = "initDone"
    /\ Len(initFetched) = 2
    /\ Len(initFetched[2]) \in 1..999
    /\ initRequests[Len(initRequests)].skip = 1000
    /\ Len(pools) = 1000 + Len(initFetched[2])

\* C23: no log and no resync, failed ones included, leaves the summary with a
\* fee-growth accumulator below the one it had before.
C23_AccumulatorsNeverDecrease ==
    /\ state.feeGrowthGlobal0X128 >= prevState.feeGrowthGlobal0X128
    /\ state.feeGrowthGlobal1X128 >= prevState.feeGrowthGlobal1X128

\* C24: after any logs applied to a summary S, Swap and Collect logs among
\* them, the liquidity is S.liquidity plus the deltas of the Mint logs minus the
\* deltas of the Burn logs; a Mint and a Burn of the same delta cancel.
C24_LiquidityIsBasePlusAddedMinusRemoved ==
    state.liquidity = liquidityBase + addedSum - removedSum

\* a Mint, a Swap that moved the price and a Burn of the Mint's delta were
\* applied, and the liquidity is the one the logs started from
C24_Witness ==
    /\ lastOp = "poolLog"
    /\ lastLog.name = "Burn"
    /\ addedSum > 0 /\ removedSum = addedSum
    /\ state.liquidity = liquidityBase
    /\ state.sqrtPriceX96 = 9
    /\ nLogs = 3

\* C25: a log that matches no known event, or whose event is of no handled
\* kind, makes processLog return null without raising, and the summary stays
\* as it was.
C25_UnhandledLogReturnsNull ==
    (lastOp = "poolLog" /\ (~lastLog.decodable \/ lastLog.name \notin poolHandlers))
    => /\ lastRet.null
       /\ ~poolThrew
       /\ state = prevState

\* a Fee log was answered with null after a Mint had raised the liquidity,
\* which the summary still shows
C25_Witness ==
    /\ lastOp = "poolLog"
    /\ lastLog.decodable /\ lastLog.name = "Fee"
    /\ lastRet.null
    /\ addedSum > 0
    /\ state.liquidity = liquidityBase + addedSum

\* C26: generateState raises nothing; after a successful read every field of
\* the summary is the value read for it (0 where the read has none), whatever
\* the summary was before; after a failed read the summary is all zero.
C26_ResyncReplacesWholesale ==
    /\ lastOp \in {"resync", "resyncFailed"} => ~poolThrew
    /\ lastOp = "resync" =>
          LET readOr0(field) == IF field.k = "val" THEN field.v ELSE 0
          IN  /\ state.sqrtPriceX96 = readOr0(lastRead.sqrtPriceX96)
              /\ state.liquidity = readOr0(lastRead.liquidity)
              /\ state.tick = readOr0(lastRead.tick)
              /\ state.feeGrowthGlobal0X128 = readOr0(lastRead.feeGrowthGlobal0X128)
              /\ state.feeGrowthGlobal1X128 = readOr0(lastRead.feeGrowthGlobal1X128)
    /\ lastOp = "resyncFailed" =>
          /\ state.sqrtPriceX96 = 0 /\ state.liquidity = 0 /\ state.tick = 0
          /\ state.feeGrowthGlobal0X128 = 0 /\ state.feeGrowthGlobal1X128 = 0

\* a read failed for a synchronizer whose summary came from logs applied on
\* top of a successful read
C26_Witness ==
    /\ lastOp = "resyncFailed"
    /\ nLogs > 0
    /\ lastRead.sqrtPriceX96.k = "val"
    /\ prevState.liquidity # 0 /\ prevState.sqrtPriceX96 # 0
    /\ prevState.feeGrowthGlobal0X128 # 0
    /\ state = PoolState(0, 0, 0, 0, 0)

\* no transfer fee is to be exchanged on either side
NoTransferFee(fees) ==
    ~isSrcTokenTransferFeeToBeExchanged(fees) /\ ~isDestTokenTransferFeeToBeExchanged(fees)

\* C27: for a request [0, a1, ..., aN] with N = chunksCount, all calls
\* succeeding and no transfer fee, the prices of every pool are
\* [0, q(a1), ..., q(aN)], q(ai) being what the pool's call for the amount ai
\* returned.
C27_RequestedAmountsAreTheSamples ==
    ( /\ qPc = "done" /\ Len(qPools) > 0
      /\ Len(qAmounts) = chunksCount + 1 /\ qAmounts[1] = 0
      /\ \A k \in 1..Len(qResults) : qResults[k].success
      /\ NoTransferFee(qFees) )
    => /\ ~qResult.null
       /\ \A p \in 1..Len(qPools) :
            /\ Len(qResult.entries[p].prices) = chunksCount + 1
            /\ qResult.entries[p].prices[1] = 0
            /\ \A j \in 2..(chunksCount + 1) :
                 LET k == (p - 1) * (chunksCount + 1) + j
                 IN  /\ qCalldata[k].amount = qAmounts[j]
                     /\ qCalldata[k].deployer = qPools[p].deployer
                     /\ qResult.entries[p].prices[j] = qResults[k].returnData

\* such a quote over two pools with different curves returned a rising price
\* vector for one pool and a flat one for the other
C27_Witness ==
    /\ lastOp = "quoteDone"
    /\ Len(qPools) = 2 /\ chunksCount = 2
    /\ qAmounts = <<0, 400000000, 800000000>>
    /\ \A k \in 1..Len(qResults) : qResults[k].success
    /\ NoTransferFee(qFees)
    /\ qResult.entries[1].prices = <<0, 1, 2>>
    /\ qResult.entries[2].prices = <<0, 1, 1>>

\* C28: an identifier does not depend on the order of the two tokens; a quote
\* hands to getPricingFromRpc the pools of the lookup whose identifier is in
\* limitPools, and all of them when limitPools is empty; with the identifiers
\* getPoolIdentifiers returned for the pair as limitPools these are all the
\* pools of the lookup, and the quote is not null when there is one.
C28_IdentifiersRoundTrip ==
    LET src == toLowerCase(wrapETH(vSrc.address))
        dest == toLowerCase(wrapETH(vDest.address))
        found == getAvailablePoolsForPair(pools, src, dest, 1, sortEngine)
        listed(pool) == getPoolIdentifier(src, dest, pool.deployer) \in vLimit
        samePair == {toLowerCase(wrapETH(lkSrc)), toLowerCase(wrapETH(lkDest))}
                       = {src, dest}
        ids == {idResult[i] : i \in 1..Len(idResult)}
    IN  /\ \A a, b \in {"0xaa", "0xbb", "0xcc", "0xdd", "0xee"} :
              getPoolIdentifier(a, b, NULL_ADDRESS) = getPoolIdentifier(b, a, NULL_ADDRESS)
        /\ (vPc = "pricing" \/ lastOp = "volumeDone") =>
              /\ vLimit = {} => qPools = found
              /\ vLimit # {} => qPools = SelectSeq(found, listed)
              /\ (vLimit = ids /\ ids # {} /\ samePair) =>
                    /\ qPools = found /\ found # <<>>
                    /\ lastOp = "volumeDone" =>
                          /\ ~vResult.null
                          /\ Len(vResult.entries) = Len(found)
                          /\ \A p \in 1..Len(found) :
                                /\ vResult.entries[p].poolIdentifiers[1] \in ids
                                /\ vResult.entries[p].poolAddresses[1]
                                      = found[p].poolAddress

\* the identifiers returned for (B, A) limited a quote for (A, B), which
\* returned prices for both pools of the pair
C28_Witness ==
    /\ lastOp = "volumeDone"
    /\ lkSrc = "0xbb" /\ lkDest = "0xAA"
    /\ vSrc.address = "0xAA" /\ vDest.address = "0xbb"
    /\ Len(idResult) = 2
    /\ vLimit = {idResult[1], idResult[2]}
    /\ ~vResult.null /\ Len(vResult.entries) = 2

\* unit and prices obtained from the results of one pool's own calls, a failed
\* call counting as the linear approximation when useFallback and as 0 otherwise
FromOwnCalls(own, useFallback) ==
    LET rates == [i \in 1..Len(qChunked) |->
                    IF own[i].success THEN own[i].returnData
                    ELSE IF useFallback
                         THEN getMockPriceForTesting(qChunked[i], qSide = "SELL")
                         ELSE 0]
        withFee == ratesWithFee(rates, qSide, qFees)
    IN  [unit |-> withFee[1],
         prices |-> interpolate(Tail(qChunked), Tail(withFee), qAmounts, qSide)]

\* the results at the positions of pool p (1-based) in the batch
OwnResults(p) ==
    SubSeq(qResults, (p - 1) * (chunksCount + 1) + 1, p * (chunksCount + 1))

\* the entries of a result are those of the candidate pools, in their order,
\* each with a price for every requested amount
OneEntryPerPool ==
    /\ Len(qResult.entries) = Len(qPools)
    /\ \A p \in 1..Len(qPools) :
          /\ qResult.entries[p].poolAddresses = <<qPools[p].poolAddress>>
          /\ qResult.entries[p].data.path[1].deployer = qPools[p].deployer
          /\ Len(qResult.entries[p].prices) = Len(qAmounts)

\* C29 as stated: a result has one entry per candidate pool, in candidate
\* order, with the pool's address and deployer and a price per requested
\* amount, and unit and prices of entry p are computed from the results of the
\* calls of pool p and of no other pool.
C29_EntryFromOwnCallsOnly ==
    (qPc = "done" /\ ~qResult.null) =>
        /\ OneEntryPerPool
        /\ \A p \in 1..Len(qPools) :
              LET own == FromOwnCalls(OwnResults(p), allFailed(OwnResults(p)))
              IN  /\ qResult.entries[p].unit = own.unit
                  /\ qResult.entries[p].prices = own.prices

\* C29 amended: the same, except that whether a failed call of pool p counts
\* as the linear approximation or as zero depends on the whole batch: the
\* approximation when every call of the batch failed, those of the other pools
\* included, and zero otherwise.
C29_EntryFromOwnCallsAndBatchFlag ==
    (qPc = "done" /\ ~qResult.null) =>
        /\ OneEntryPerPool
        /\ \A p \in 1..Len(qPools) :
              LET own == FromOwnCalls(OwnResults(p), allFailed(qResults))
              IN  /\ qResult.entries[p].unit = own.unit
                  /\ qResult.entries[p].prices = own.prices

\* every call of the first pool failed and every call of the second succeeded:
\* the first entry is all zero, the second has the second pool's prices
C29_Witness ==
    /\ qPc = "done" /\ Len(qPools) = 2 /\ Len(qAmounts) = 3
    /\ \A k \in 1..Len(qResults) : qResults[k].success <=> k > chunksCount + 1
    /\ qResult.entries[1].unit = 0
    /\ qResult.entries[1].prices = <<0, 0, 0>>
    /\ qResult.entries[2].prices[3] > 0
    /\ getMockPriceForTesting(qChunked[1], qSide = "SELL") > 0

\* C30: a Swap log leaves liquidity and both accumulators as they were, a Mint
\* or Burn log leaves price, tick and both accumulators as they were, and a
\* Collect log returns a summary equal to the one it was given in every field.
C30_EventsChangeOnlyTheirFields ==
    (lastOp = "poolLog" /\ lastLog.decodable /\ lastLog.name \in poolHandlers) =>
        /\ ~lastRet.null /\ state = lastRet.st
        /\ state.feeGrowthGlobal0X128 = prevState.feeGrowthGlobal0X128
        /\ state.feeGrowthGlobal1X128 = prevState.feeGrowthGlobal1X128
        /\ lastLog.name = "Swap" => state.liquidity = prevState.liquidity
        /\ lastLog.name \in {"Mint", "Burn"} =>
              /\ state.sqrtPriceX96 = prevState.sqrtPriceX96
              /\ state.tick = prevState.tick
        /\ lastLog.name = "Collect" => state = prevState

\* a Collect log returned the summary unchanged after a Swap had set the price
\* and a Mint had raised the liquidity of a summary with non-zero accumulators
C30_Witness ==
    /\ lastOp = "poolLog" /\ lastLog.name = "Collect"
    /\ ~lastRet.null /\ lastRet.st = prevState
    /\ nLogs = 3
    /\ state.sqrtPriceX96 = 9 /\ state.tick = 5
    /\ addedSum > 0 /\ state.liquidity = liquidityBase + addedSum
    /\ state.feeGrowthGlobal0X128 = 4

\* C31: for a strictly increasing amount vector of any length, the sample
\* amounts handed to interpolation are the chunksCount amounts
\* amounts[i * floor((len - 1) / chunksCount)], i = 1..chunksCount, and they
\* are strictly increasing.
C31_SampleAmountsStrictlyIncreasing ==
    ( /\ qPc \in {"waiting", "done"} /\ Len(qPools) > 0
      /\ \A j \in 1..(Len(qAmounts) - 1) : qAmounts[j] < qAmounts[j + 1] )
    => LET samples == Tail(qChunked)
           width == (Len(qAmounts) - 1) \div chunksCount
       IN  /\ Len(samples) = chunksCount
           /\ \A i \in 1..chunksCount : samples[i] = qAmounts[i * width + 1]
           /\ \A i \in 1..(chunksCount - 1) : samples[i] < samples[i + 1]

\* what the fee steps of getPricingFromRpc are required to do, the sample
\* amounts of the interpolation being the fee-reduced ones (feeAdjusted) or
\* the ones picked from the request
FeeSides(feeAdjusted) ==
    (qPc = "done" /\ ~qResult.null) =>
        LET n == chunksCount + 1
            srcFee == isSrcTokenTransferFeeToBeExchanged(qFees) /\ qSide = "SELL"
            destFee == isDestTokenTransferFeeToBeExchanged(qFees)
            sent == [i \in 1..n |->
                       IF srcFee THEN shrinkByFee(qChunked[i], qFees.srcDexFee)
                       ELSE qChunked[i]]
            out(p) == [i \in 1..n |->
                         IF destFee THEN shrinkByFee(qRates[p][i], qFees.destDexFee)
                         ELSE qRates[p][i]]
            xs == IF feeAdjusted THEN Tail(sent) ELSE Tail(qChunked)
        IN  /\ (srcFee \/ NoTransferFee(qFees)) =>
                  \A k \in 1..Len(qCalldata) :
                      qCalldata[k].amount = sent[((k - 1) % n) + 1]
            /\ srcFee => \A i \in 1..n : sent[i] < qChunked[i] \/ qChunked[i] = 0
            /\ interpolationAmounts(qChunked, amountsForQuote(qChunked, qSide, qFees))
                  = xs
            /\ \A p \in 1..Len(qPools) :
                  /\ qResult.entries[p].unit = out(p)[1]
                  /\ qResult.entries[p].prices
                        = interpolate(xs, Tail(out(p)), qAmounts, qSide)

QuoteOps ==
    {"volumeCall", "volumeRejected", "volumeRaised", "volumeDone",
     "quoteCall", "quoteNoPools", "quoteDone"}

\* the candidate pools of the quote in flight, looked up in the registry `ps`
candidatesIn(ps) ==
    LET lowered == getLoweredAddresses(wrapETHToken(vSrc), wrapETHToken(vDest))
    IN  limitPoolsFilter(getAvailablePoolsForPair(ps, lowered[1], lowered[2], 1,
                                                  sortEngine),
                         vLimit, lowered[1], lowered[2])

\* C33: whatever creation events and bulk loads did to the registry while a
\* quote was suspended, the quote returns null when the list looked up before
\* the remote request was empty and else one entry per pool of that list, in
\* its order, entry p computed from the batch results at pool p's positions;
\* and no step of a quote changes the registry.
C33_QuoteWorksOnItsSnapshot ==
    /\ [](lastOp = "volumeDone" =>
              LET snapshot == candidatesIn(poolsAtQuote)
                  n == chunksCount + 1
              IN  /\ vResult.null <=> snapshot = <<>>
                  /\ ~vResult.null =>
                        /\ Len(qResults) = Len(snapshot) * n
                        /\ Len(vResult.entries) = Len(snapshot)
                        /\ \A p \in 1..Len(snapshot) :
                              LET own == FromOwnCalls(OwnResults(p),
                                                      allFailed(qResults))
                              IN  /\ vResult.entries[p].poolAddresses
                                        = <<snapshot[p].poolAddress>>
                                  /\ vResult.entries[p].data.path[1].deployer
                                        = snapshot[p].deployer
                                  /\ vResult.entries[p].unit = own.unit
                                  /\ vResult.entries[p].prices = own.prices)
    /\ [][lastOp' \in QuoteOps => pools' = pools]_vars

\* a quote over two pools has returned both entries although the registry was
\* changed while it was suspended and a lookup would now answer otherwise
C33_Witness ==
    /\ lastOp = "volumeDone" /\ ~vResult.null
    /\ Len(poolsAtQuote) = 2 /\ Len(vResult.entries) = 2
    /\ pools # poolsAtQuote
    /\ candidatesIn(pools) # candidatesIn(poolsAtQuote)

====
